---- MODULE Spec2Model ----
(***************************************************************************)
(* Model of the mark-and-sweep collector and memory mapper of              *)
(* crates/mun_memory/src/gc/mark_sweep.rs.                                 *)
(*                                                                         *)
(* Addresses are positive integers; 0 is the null handle.  A payload is a  *)
(* block of 8-byte words.  Unsigned machine integers (roots: u32,          *)
(* allocated_memory: usize) are little-endian sequences of 16-bit limbs,   *)
(* so that wrap-around keeps its width.                                    *)
(***************************************************************************)
EXTENDS Integers, Sequences, FiniteSets, TLC

VARIABLES
    objects,          \* MarkSweep.objects: handle -> ObjectInfo
    heap,             \* payload blocks owned by the allocator: ptr -> [size, data]
    allocated_memory, \* MarkSweep.stats.allocated_memory (usize)
    events,           \* observer events of the current / last call
    pc,               \* "idle", "mark" (inside collect), "panicked"
    worklist,         \* the VecDeque `roots` of collect
    universe,         \* which type universe the loaded assembly declares
    reloads,          \* number of reloads that changed the universe
    net,              \* ghost: completed root calls minus completed unroot calls
    last,             \* ghost: the last call and what it returned
    pre,              \* ghost: objects, heap and stats when the last collect / map_memory began
    layout,           \* a call of repeat_layout: its arguments and what it returned
    threads,          \* the call each host thread is in, and what its last query returned
    table_lock,       \* the thread that holds MarkSweep.objects exclusively, 0 if none does
    lut,              \* a TypeLut, and the last lookup made in it
    invoke            \* a MunRuntime and the invocation its host is making

vars == <<objects, heap, allocated_memory, events, pc, worklist, universe, reloads,
          net, last, pre, layout, threads, table_lock, lut, invoke>>

----------------------------------------------------------------------------
(* Bounds *)

MaxObjects == 2
MaxArrayLen == 2
MaxRoots == 2
MaxReloads == 1
MaxSize == 8
MaxCount == 4
MaxCalls == 5

(* Program constants *)

WordSize == 8
RootsLimbs == 2
UsizeLimbs == 4

LimbBase == 256 * 256
Null == 0
Uninit == 0 - 1
\* what a word of memory fresh from std::alloc::alloc may hold: zero, or something else
GarbageVals == {0, Uninit}
ScalarVals == {7}
\* overflow-checks of the build, on or off: the builds differ only where arithmetic overflows
Builds(overflows) == IF overflows THEN BOOLEAN ELSE {FALSE}

----------------------------------------------------------------------------
(* Generic helpers *)

Min(S) == CHOOSE x \in S : \A y \in S : x <= y

Range(s) == {s[i] : i \in 1..Len(s)}

RECURSIVE Perms(_)
Perms(S) ==
    IF S = {} THEN {<<>>}
    ELSE UNION {{<<x>> \o p : p \in Perms(S \ {x})} : x \in S}

RECURSIVE SumOver(_, _)
SumOver(S, f) ==
    IF S = {} THEN 0
    ELSE LET x == CHOOSE y \in S : TRUE IN f[x] + SumOver(S \ {x}, f)

RECURSIVE Flatten(_)
Flatten(ss) == IF ss = <<>> THEN <<>> ELSE Head(ss) \o Flatten(Tail(ss))

Restrict(f, S) == [x \in S |-> f[x]]

----------------------------------------------------------------------------
(* Fixed-width unsigned integers *)

UZero(k) == [i \in 1..k |-> 0]

RECURSIVE UAddAt(_, _, _)
UAddAt(x, i, c) ==
    IF c = 0 \/ i > Len(x) THEN [v |-> x, carry |-> c]
    ELSE LET s == x[i] + c
         IN UAddAt([x EXCEPT ![i] = s % LimbBase], i + 1, s \div LimbBase)

RECURSIVE USubAt(_, _, _)
USubAt(x, i, b) ==
    IF b = 0 \/ i > Len(x) THEN [v |-> x, carry |-> b]
    ELSE LET d == x[i] - (b % LimbBase)
             up == b \div LimbBase
         IN IF d >= 0 THEN USubAt([x EXCEPT ![i] = d], i + 1, up)
            ELSE USubAt([x EXCEPT ![i] = d + LimbBase], i + 1, up + 1)

\* x + n and x - n in the width of x; carry # 0 signals overflow
UAdd(x, n) == UAddAt(x, 1, n)
USub(x, n) == USubAt(x, 1, n)
UOfNat(n, k) == UAdd(UZero(k), n).v
UIsZero(x) == \A i \in 1..Len(x) : x[i] = 0
\* a value below 2^16
UToNat(x) == x[1]

\* x + y, limb by limb from limb i with carry c
RECURSIVE UAddUAt(_, _, _, _)
UAddUAt(x, y, i, c) ==
    IF i > Len(x) THEN [v |-> x, carry |-> c]
    ELSE LET t == x[i] + y[i] + c
         IN UAddUAt([x EXCEPT ![i] = t % LimbBase], y, i + 1, t \div LimbBase)
UAddU(x, y) == UAddUAt(x, y, 1, 0)

\* usize::MAX and isize::MAX
UMax(k) == [i \in 1..k |-> LimbBase - 1]
IMax(k) == [i \in 1..k |-> IF i = k THEN (LimbBase \div 2) - 1 ELSE LimbBase - 1]

\* x <= y, the limbs compared from the most significant
RECURSIVE ULeAt(_, _, _)
ULeAt(x, y, i) ==
    IF i = 0 THEN TRUE
    ELSE IF x[i] # y[i] THEN x[i] < y[i] ELSE ULeAt(x, y, i - 1)
ULe(x, y) == ULeAt(x, y, Len(x))

\* byte j of y, byte 1 the least significant
ByteOf(y, j) == (y[(j + 1) \div 2] \div (IF j % 2 = 0 THEN 256 ELSE 1)) % 256

\* acc * 256 + x * m for a byte m, limb by limb from limb i with carry c
RECURSIVE UMulAddAt(_, _, _, _, _)
UMulAddAt(acc, x, m, i, c) ==
    IF i > Len(x) THEN [v |-> acc, carry |-> c]
    ELSE LET t == acc[i] * 256 + x[i] * m + c
         IN UMulAddAt([acc EXCEPT ![i] = t % LimbBase], x, m, i + 1, t \div LimbBase)

\* x * y, the bytes of y taken from byte j down: the product is lost once a carry leaves x
RECURSIVE UMulFrom(_, _, _, _)
UMulFrom(x, y, j, st) ==
    IF j = 0 THEN st
    ELSE IF ByteOf(y, j) = 0 /\ UIsZero(st.v) THEN UMulFrom(x, y, j - 1, st)
    ELSE LET r == UMulAddAt(st.v, x, ByteOf(y, j), 1, 0)
         IN UMulFrom(x, y, j - 1, [v |-> r.v, overflow |-> st.overflow \/ r.carry # 0])

\* usize::wrapping_mul
wrapping_mul(x, y) ==
    [v |-> UMulFrom(x, y, 2 * Len(y), [v |-> UZero(Len(x)), overflow |-> FALSE]).v,
     overflow |-> FALSE]

\* usize::checked_mul
checked_mul(x, y) == UMulFrom(x, y, 2 * Len(y), [v |-> UZero(Len(x)), overflow |-> FALSE])

----------------------------------------------------------------------------
(* Type descriptors.  A descriptor is [g, asm]: g names the GUID (layout   *)
(* and composition hang off it), asm the assembly that supplied it: 0 for  *)
(* the assembly now loaded, 1 for an assembly loaded before it.            *)

TypeTable ==
    [ i64     |-> [kind |-> "prim",  name |-> "i64",   size |-> 8,  elem |-> "none", fields |-> <<>>],
      f64     |-> [kind |-> "prim",  name |-> "f64",   size |-> 8,  elem |-> "none", fields |-> <<>>],
      NodeA   |-> [kind |-> "gc",    name |-> "Node",  size |-> 16, elem |-> "none",
                   fields |-> <<[off |-> 0, g |-> "i64"], [off |-> 8, g |-> "NodeA"]>>],
      NodeB   |-> [kind |-> "gc",    name |-> "Node",  size |-> 24, elem |-> "none",
                   fields |-> <<[off |-> 0, g |-> "NodeB"], [off |-> 8, g |-> "i64"],
                                [off |-> 16, g |-> "Fresh"]>>],
      Fresh   |-> [kind |-> "gc",    name |-> "Fresh", size |-> 8,  elem |-> "none",
                   fields |-> <<[off |-> 0, g |-> "i64"]>>],
      OuterA  |-> [kind |-> "gc",    name |-> "Outer", size |-> 8,  elem |-> "none",
                   fields |-> <<[off |-> 0, g |-> "InnerA"]>>],
      OuterB  |-> [kind |-> "gc",    name |-> "Outer", size |-> 16, elem |-> "none",
                   fields |-> <<[off |-> 0, g |-> "InnerB"]>>],
      InnerA  |-> [kind |-> "gc",    name |-> "Inner", size |-> 16, elem |-> "none",
                   fields |-> <<[off |-> 0, g |-> "i64"], [off |-> 8, g |-> "i64"]>>],
      InnerB  |-> [kind |-> "value", name |-> "Inner", size |-> 16, elem |-> "none",
                   fields |-> <<[off |-> 0, g |-> "f64"], [off |-> 8, g |-> "i64"]>>],
      ArrI64  |-> [kind |-> "array", name |-> "[i64]",  size |-> 8, elem |-> "i64",  fields |-> <<>>],
      BagA    |-> [kind |-> "gc",    name |-> "Bag",   size |-> 8,  elem |-> "none",
                   fields |-> <<[off |-> 0, g |-> "i64"]>>],
      BagB    |-> [kind |-> "gc",    name |-> "Bag",   size |-> 16, elem |-> "none",
                   fields |-> <<[off |-> 0, g |-> "i64"], [off |-> 8, g |-> "ArrInner"]>>],
      ArrInner |-> [kind |-> "array", name |-> "[Inner]", size |-> 8, elem |-> "InnerB",
                    fields |-> <<>>] ]

Ty(g, a) == [g |-> g, asm |-> a]

\* TypeDesc equality and hashing are by GUID
TyEq(t, u) == t.g = u.g

layout_size(t) == TypeTable[t.g].size
is_struct(t) == TypeTable[t.g].kind \in {"gc", "value"}
is_array(t) == TypeTable[t.g].kind = "array"
is_stack_allocated(t) == TypeTable[t.g].kind \in {"prim", "value"}
name(t) == TypeTable[t.g].name
element_type(t) == Ty(TypeTable[t.g].elem, t.asm)

\* struct and array types an assembly of the universe declares
UniverseTypes(u) ==
    IF u = "A" THEN {"NodeA", "OuterA", "InnerA", "ArrI64"}
    ELSE IF u = "B" THEN {"NodeB", "Fresh", "OuterB", "InnerB", "ArrI64"}
    ELSE IF u = "C" THEN {"BagA"}
    ELSE {"BagB", "ArrInner", "InnerB"}

\* leaf slots (primitives and handles) of a type placed at byte offset off
RECURSIVE Slots(_, _)
Slots(g, off) ==
    IF TypeTable[g].kind = "value"
    THEN Flatten([i \in 1..Len(TypeTable[g].fields) |->
                    Slots(TypeTable[g].fields[i].g, off + TypeTable[g].fields[i].off)])
    ELSE <<[off |-> off, g |-> g]>>

\* bytes one element of an array of type g occupies: the element itself, or a handle
ElemStride(g) ==
    IF TypeTable[TypeTable[g].elem].kind \in {"prim", "value"}
    THEN TypeTable[TypeTable[g].elem].size ELSE WordSize

\* leaf slots of the payload of an object of type g with capacity n
PayloadSlots(g, n) ==
    IF TypeTable[g].kind = "array"
    THEN Flatten([i \in 1..n |-> Slots(TypeTable[g].elem, (i - 1) * ElemStride(g))])
    ELSE Flatten([i \in 1..Len(TypeTable[g].fields) |->
                    Slots(TypeTable[g].fields[i].g, TypeTable[g].fields[i].off)])

WordAt(off) == (off \div WordSize) + 1

\* TypeTrace::trace: the handles stored in the handle slots of the payload
Trace(objs, hp, h) ==
    LET o == objs[h]
        sl == PayloadSlots(o.ty.g, o.length)
        data == hp[o.ptr].data
    IN SelectSeq([i \in 1..Len(sl) |->
                    IF TypeTable[sl[i].g].kind = "prim" THEN Null ELSE data[WordAt(sl[i].off)]],
                 LAMBDA v : v # Null)

----------------------------------------------------------------------------
(* The allocator *)

UsedAddrs(objs, hp) == DOMAIN objs \cup DOMAIN hp

\* std::alloc::alloc / Box::pin: some address not in use
FreshAddr(used) == Min({a \in 1..(Cardinality(used) + 1) : a \notin used})

HeapAlloc(hp, p, size, fill) ==
    [q \in DOMAIN hp \cup {p} |->
        IF q = p THEN [size |-> size, data |-> [i \in 1..(size \div WordSize) |-> fill]]
        ELSE hp[q]]

HeapFree(hp, p) == Restrict(hp, DOMAIN hp \ {p})

\* MemoryLayoutError / Layout
LayoutErr(e) == [ok |-> FALSE, err |-> e, size |-> UZero(UsizeLimbs), align |-> 0]
LayoutOk(size, align) == [ok |-> TRUE, err |-> "none", size |-> size, align |-> align]

\* Layout::from_size_align: size rounded up to align must not exceed isize::MAX
from_size_align(size, align) ==
    IF ULe(size, USub(IMax(UsizeLimbs), align - 1).v)
    THEN LayoutOk(size, align) ELSE LayoutErr("LayoutError")

\* size rounded up to the power of two align
round_up(size, align) == (size + align - 1) - ((size + align - 1) % align)

\* padded_size - layout.size() of repeat_layout
RepeatPadding(size, align) == USub(UOfNat(round_up(size, align), UsizeLimbs), align).v

\* repeat_layout: layout of n instances of (size, align), size and align below 2^16, n a usize
repeat_layout(size, align, n) ==
    LET padded_size == UAddU(UOfNat(size, UsizeLimbs), RepeatPadding(size, align)).v
        alloc_size == checked_mul(padded_size, n)
    IN IF alloc_size.overflow THEN LayoutErr("OutOfBounds")
       ELSE from_size_align(alloc_size.v, align)

\* Layout::array::<GcPtr>(n)
array_layout(n) ==
    LET alloc_size == checked_mul(UOfNat(WordSize, UsizeLimbs), n)
    IN IF alloc_size.overflow THEN LayoutErr("LayoutError")
       ELSE from_size_align(alloc_size.v, WordSize)

\* ObjectInfo::value_layout: the size of the payload of the object
value_layout(o) ==
    IF is_array(o.ty)
    THEN IF is_stack_allocated(element_type(o.ty))
         THEN UToNat(repeat_layout(layout_size(element_type(o.ty)), WordSize,
                                   UOfNat(o.capacity, UsizeLimbs)).size)
         ELSE UToNat(array_layout(UOfNat(o.capacity, UsizeLimbs)).size)
    ELSE layout_size(o.ty)

----------------------------------------------------------------------------
(* Ghost bookkeeping *)

NoCall == [op |-> "none", ret |-> FALSE, after_collect |-> FALSE, deleted |-> <<>>,
           mapping |-> "none", conv_order |-> <<>>, other |-> [fault |-> FALSE, view |-> <<>>],
           panic |-> "none", arg |-> <<>>, passes |-> <<>>]
NoPre == [objects |-> <<>>, heap |-> <<>>, allocated_memory |-> UZero(UsizeLimbs), net |-> <<>>]
Snapshot(objs) ==
    [objects |-> objs, heap |-> heap, allocated_memory |-> allocated_memory, net |-> net]

\* a call no ghost is kept for has completed
Done ==
    /\ last' = NoCall
    /\ pre' = NoPre

Event(kind, h) == [kind |-> kind, h |-> h]

\* no call of repeat_layout is followed
NoLayout == [size |-> 0, align |-> 1, n |-> UZero(UsizeLimbs), result |-> <<>>]

\* no TypeLut is looked at, no function is invoked
NoLut == [type_handles |-> <<>>, num_entries |-> <<0, 0>>, call |-> "none", idx |-> <<0, 0>>,
          result |-> <<>>, read |-> <<>>]
NoInvoke == <<>>

----------------------------------------------------------------------------
Init ==
    /\ objects = <<>>
    /\ heap = <<>>
    /\ allocated_memory = UZero(UsizeLimbs)
    /\ events = <<>>
    /\ pc = "idle"
    /\ worklist = <<>>
    /\ universe \in {"A", "B"}
    /\ reloads = 0
    /\ net = <<>>
    /\ last = NoCall
    /\ pre = NoPre
    /\ layout = NoLayout
    /\ threads = <<>>
    /\ table_lock = 0
    /\ lut = NoLut
    /\ invoke = NoInvoke

----------------------------------------------------------------------------
(* Values a slot of declared type g holds once the host has initialised the object *)
SlotVals(objs, g) ==
    IF g = "i64" THEN ScalarVals
    ELSE IF g = "f64" THEN {IF v = 0 THEN 0 ELSE v + 1000 : v \in ScalarVals}
    ELSE {Null} \cup {h \in DOMAIN objs : objs[h].ty.g = g}

\* all payload contents the host may construct for an object of type g, capacity n
Contents(objs, g, n) ==
    LET sl == PayloadSlots(g, n)
    IN {d \in [1..Len(sl) -> UNION {SlotVals(objs, sl[i].g) : i \in 1..Len(sl)} \cup {Null}] :
            \A i \in 1..Len(sl) : d[i] \in SlotVals(objs, sl[i].g)}

\* a handle slot the host has not stored to yet holds what the allocator returned
RawSlotVals(objs, g) ==
    IF TypeTable[g].kind = "gc" THEN SlotVals(objs, g) \cup {Uninit} ELSE SlotVals(objs, g)

\* payload contents of an object of type g, capacity n, some of whose handle slots the
\* host has not stored to yet
RawContents(objs, g, n) ==
    LET sl == PayloadSlots(g, n)
    IN {d \in [1..Len(sl) -> UNION {RawSlotVals(objs, sl[i].g) : i \in 1..Len(sl)} \cup {Null}] :
            \A i \in 1..Len(sl) : d[i] \in RawSlotVals(objs, sl[i].g)}

\* log_alloc
log_alloc(handle, ty) ==
    /\ allocated_memory' = UAdd(allocated_memory, layout_size(ty)).v
    /\ events' = <<Event("Allocation", handle)>>

\* alloc_obj: a pinned record and a payload of ty.layout()
alloc_obj(objs, hp, ty) ==
    LET handle == FreshAddr(UsedAddrs(objs, hp))
        ptr == FreshAddr(UsedAddrs(objs, hp) \cup {handle})
    IN [handle |-> handle,
        info |-> [ptr |-> ptr, length |-> 1, capacity |-> 1, ty |-> ty,
                  roots |-> UZero(RootsLimbs), color |-> "White"],
        size |-> layout_size(ty)]

\* alloc_array (the free function): payload of `length` elements
alloc_array(objs, hp, array_ty, length) ==
    LET handle == FreshAddr(UsedAddrs(objs, hp))
        ptr == FreshAddr(UsedAddrs(objs, hp) \cup {handle})
    IN [handle |-> handle,
        info |-> [ptr |-> ptr, length |-> UToNat(length), capacity |-> UToNat(length),
                  ty |-> array_ty, roots |-> UZero(RootsLimbs), color |-> "White"],
        layout |-> IF is_stack_allocated(element_type(array_ty))
                   THEN repeat_layout(layout_size(element_type(array_ty)), WordSize, length)
                   ELSE array_layout(length)]

\* lengths the host asks alloc_array for: some elements, or more than memory can hold
\* (with no element the layout handed to std::alloc::alloc has size 0, which is undefined)
ArrayLengths == {UOfNat(n, UsizeLimbs) : n \in 1..MaxArrayLen} \cup {UMax(UsizeLimbs)}

\* payload contents the host may construct for an object of type g, capacity n; with
\* raw, some handle slots may not have been stored to yet
HostContents(objs, g, n, raw) ==
    IF raw THEN RawContents(objs, g, n) ELSE Contents(objs, g, n)

Insert(objs, h, info) == [k \in DOMAIN objs \cup {h} |-> IF k = h THEN info ELSE objs[k]]

\* MarkSweep::alloc followed by the host's initialising stores
AllocUpTo(limit, g, content) ==
    LET object == alloc_obj(objects, heap, Ty(g, 0))
    IN /\ pc = "idle"
       /\ Cardinality(DOMAIN objects) < limit
       /\ objects' = Insert(objects, object.handle, object.info)
       /\ heap' = [HeapAlloc(heap, object.info.ptr, object.size, Uninit)
                     EXCEPT ![object.info.ptr].data = content]
       /\ log_alloc(object.handle, Ty(g, 0))
       /\ net' = Insert(net, object.handle, 0)
       /\ Done
       /\ UNCHANGED <<pc, worklist, universe, reloads>>
       /\ UNCHANGED <<layout, threads, table_lock, lut, invoke>>

Alloc(g, content) == AllocUpTo(MaxObjects, g, content)

\* MarkSweep::alloc_array followed by the host's initialising stores
AllocArray(g, length, raw) ==
    /\ pc = "idle"
    /\ Cardinality(DOMAIN objects) < MaxObjects
    /\ \E object \in {alloc_array(objects, heap, Ty(g, 0), length)} :
          IF ~object.layout.ok
          THEN /\ pc' = "panicked"
               /\ last' = [NoCall EXCEPT !.op = "alloc_array", !.arg = <<g, length>>,
                                         !.panic = object.layout.err]
               /\ pre' = Snapshot(objects)
               /\ events' = <<>>
               /\ UNCHANGED <<objects, heap, allocated_memory, net>>
          ELSE \E content \in HostContents(objects, g, object.info.length, raw) :
               /\ pc' = pc
               /\ objects' = Insert(objects, object.handle, object.info)
               /\ heap' = [HeapAlloc(heap, object.info.ptr, UToNat(object.layout.size), Uninit)
                             EXCEPT ![object.info.ptr].data = content]
               /\ log_alloc(object.handle, Ty(g, 0))
               /\ net' = Insert(net, object.handle, 0)
               /\ Done
    /\ UNCHANGED <<worklist, universe, reloads>>
    /\ UNCHANGED <<layout, threads, table_lock, lut, invoke>>

\* a store of the host into a handle slot of a payload
WriteField(h, i, v) ==
    /\ pc = "idle"
    /\ heap[objects[h].ptr].data[i] # v
    /\ heap' = [heap EXCEPT ![objects[h].ptr].data[i] = v]
    /\ events' = <<>>
    /\ Done
    /\ UNCHANGED <<objects, allocated_memory, pc, worklist, universe, reloads, net>>
    /\ UNCHANGED <<layout, threads, table_lock, lut, invoke>>

\* (*object_info).roots += 1
RootIncrFlag(roots) == [v |-> UOfNat(1, RootsLimbs), carry |-> 0]
root_incr(roots) == UAdd(roots, 1)

\* (*object_info).roots -= 1
root_decr(roots) == USub(roots, 1)

\* MarkSweep::root
Root(h, overflow_checks) ==
    LET r == root_incr(objects[h].roots)
    IN /\ pc = "idle"
       /\ SumOver({k \in DOMAIN net : net[k] > 0}, net) < MaxRoots
       /\ events' = <<>>
       /\ IF r.carry # 0 /\ overflow_checks
          THEN /\ pc' = "panicked"
               /\ last' = [NoCall EXCEPT !.panic = "attempt to add with overflow"]
               /\ pre' = NoPre
               /\ UNCHANGED <<objects, net>>
          ELSE /\ objects' = [objects EXCEPT ![h].roots = r.v]
               /\ net' = [net EXCEPT ![h] = @ + 1]
               /\ Done
               /\ pc' = pc
       /\ UNCHANGED <<heap, allocated_memory, worklist, universe, reloads>>
       /\ UNCHANGED <<layout, threads, table_lock, lut, invoke>>

\* MarkSweep::unroot
Unroot(h, overflow_checks) ==
    LET r == root_decr(objects[h].roots)
    IN /\ pc = "idle"
       /\ net[h] >= 0
       /\ net[h] = 0 => \A k \in DOMAIN net : net[k] >= 0
       /\ events' = <<>>
       /\ IF r.carry # 0 /\ overflow_checks
          THEN /\ pc' = "panicked"
               /\ last' = [NoCall EXCEPT !.panic = "attempt to subtract with overflow"]
               /\ pre' = NoPre
               /\ UNCHANGED <<objects, net>>
          ELSE /\ objects' = [objects EXCEPT ![h].roots = r.v]
               /\ net' = [net EXCEPT ![h] = @ - 1]
               /\ Done
               /\ pc' = pc
       /\ UNCHANGED <<heap, allocated_memory, worklist, universe, reloads>>
       /\ UNCHANGED <<layout, threads, table_lock, lut, invoke>>

----------------------------------------------------------------------------
(* collect *)

\* obj.roots > 0
IsRootedTwice(obj) == ~UIsZero(obj.roots) /\ obj.roots # UOfNat(1, RootsLimbs)
IsRooted(obj) == ~UIsZero(obj.roots)

\* collect, up to the end of the root scan
CollectBegin(order) ==
    /\ pc = "idle"
    /\ events' = <<Event("Start", Null)>>
    /\ worklist' = SelectSeq(order, LAMBDA h : IsRooted(objects[h]))
    /\ pc' = "mark"
    /\ pre' = Snapshot(objects)
    /\ last' = [NoCall EXCEPT !.op = "collecting", !.after_collect = (last.op = "collect")]
    /\ UNCHANGED <<objects, heap, allocated_memory, universe, reloads, net>>
    /\ UNCHANGED <<layout, threads, table_lock, lut, invoke>>

\* the for loop over the references of one traced object
TraceRefsNoMark(refs, objs, wl) ==
    [objects |-> objs, worklist |-> wl, invalid |-> \E i \in 1..Len(refs) : refs[i] \notin DOMAIN objs]

RECURSIVE TraceRefsAnyColor(_, _, _)
TraceRefsAnyColor(refs, objs, wl) ==
    IF refs = <<>> THEN [objects |-> objs, worklist |-> wl, invalid |-> FALSE]
    ELSE LET reference == Head(refs)
         IN IF reference \notin DOMAIN objs
            THEN [objects |-> objs, worklist |-> wl, invalid |-> TRUE]
            ELSE TraceRefsAnyColor(Tail(refs), [objs EXCEPT ![reference].color = "Gray"],
                                   Append(wl, reference))

RECURSIVE TraceRefsSkipInvalid(_, _, _)
TraceRefsSkipInvalid(refs, objs, wl) ==
    IF refs = <<>> THEN [objects |-> objs, worklist |-> wl, invalid |-> FALSE]
    ELSE LET reference == Head(refs)
         IN IF reference \in DOMAIN objs /\ objs[reference].color = "White"
            THEN TraceRefsSkipInvalid(Tail(refs), [objs EXCEPT ![reference].color = "Gray"],
                                      Append(wl, reference))
            ELSE TraceRefsSkipInvalid(Tail(refs), objs, wl)

RECURSIVE TraceRefs(_, _, _)
TraceRefs(refs, objs, wl) ==
    IF refs = <<>> THEN [objects |-> objs, worklist |-> wl, invalid |-> FALSE]
    ELSE LET reference == Head(refs)
         IN IF reference \notin DOMAIN objs
            THEN [objects |-> objs, worklist |-> wl, invalid |-> TRUE]
            ELSE IF objs[reference].color = "White"
                 THEN TraceRefs(Tail(refs), [objs EXCEPT ![reference].color = "Gray"],
                                Append(wl, reference))
                 ELSE TraceRefs(Tail(refs), objs, wl)

\* one iteration of `while let Some(next) = roots.pop_front()`
MarkStep ==
    /\ pc = "mark"
    /\ worklist # <<>>
    /\ LET next == Head(worklist)
       IN \E t \in {TraceRefs(Trace(objects, heap, next), objects, Tail(worklist))} :
          IF t.invalid
          THEN /\ pc' = "panicked"
               /\ objects' = t.objects
               /\ worklist' = t.worklist
               /\ last' = [last EXCEPT !.panic = "found invalid reference"]
          ELSE /\ pc' = pc
               /\ objects' = [t.objects EXCEPT ![next].color = "Black"]
               /\ worklist' = t.worklist
               /\ UNCHANGED last
    /\ UNCHANGED <<heap, allocated_memory, events, universe, reloads, net, pre>>
    /\ UNCHANGED <<layout, threads, table_lock, lut, invoke>>

\* a record the sweep keeps: its color is reset
KeepGray(obj) == [obj EXCEPT !.color = "Gray"]
KeepBlack(obj) == obj
Keep(obj) == [obj EXCEPT !.color = "White"]

\* size_before != size_after
ReclaimedInverted(size_before, size_after) == size_before = size_after
Reclaimed(size_before, size_after) == size_before # size_after

\* objects.retain(..) without self.observer.event(Event::Deallocation(*h))
RECURSIVE SweepFromSilent(_, _, _, _)
SweepFromSilent(order, i, st, overflow_checks) ==
    IF i > Len(order) \/ st.panicked THEN st
    ELSE LET h == order[i]
             obj == st.objects[h]
         IN IF obj.color = "Black"
            THEN SweepFromSilent(order, i + 1,
                                 [st EXCEPT !.objects = [st.objects EXCEPT ![h] = Keep(obj)]],
                                 overflow_checks)
            ELSE LET freed == [st EXCEPT !.heap = HeapFree(st.heap, obj.ptr)]
                     sub == USub(st.allocated_memory, layout_size(obj.ty))
                 IN IF st.heap[obj.ptr].size # value_layout(obj)
                       \/ (sub.carry # 0 /\ overflow_checks)
                    THEN [freed EXCEPT !.panicked = TRUE]
                    ELSE SweepFromSilent(order, i + 1,
                                         [freed EXCEPT
                                            !.objects = Restrict(st.objects, DOMAIN st.objects \ {h}),
                                            !.allocated_memory = sub.v,
                                            !.overflowed = @ \/ sub.carry # 0],
                                         overflow_checks)

\* objects.retain(..): the records are visited in the order of the hash map
RECURSIVE SweepFrom(_, _, _, _)
SweepFrom(order, i, st, overflow_checks) ==
    IF i > Len(order) \/ st.panicked THEN st
    ELSE LET h == order[i]
             obj == st.objects[h]
         IN IF obj.color = "Black"
            THEN SweepFrom(order, i + 1,
                           [st EXCEPT !.objects = [st.objects EXCEPT ![h] = Keep(obj)]],
                           overflow_checks)
            ELSE LET freed == [st EXCEPT
                                 !.heap = HeapFree(st.heap, obj.ptr),
                                 !.events = Append(st.events, Event("Deallocation", h))]
                     sub == USub(st.allocated_memory, layout_size(obj.ty))
                 IN IF st.heap[obj.ptr].size # value_layout(obj)
                       \/ (sub.carry # 0 /\ overflow_checks)
                    THEN [freed EXCEPT !.panicked = TRUE]
                    ELSE SweepFrom(order, i + 1,
                                   [freed EXCEPT
                                      !.objects = Restrict(st.objects, DOMAIN st.objects \ {h}),
                                      !.allocated_memory = sub.v,
                                      !.overflowed = @ \/ sub.carry # 0],
                                   overflow_checks)

SweepStart ==
    [objects |-> objects, heap |-> heap, allocated_memory |-> allocated_memory,
     events |-> events, panicked |-> FALSE, overflowed |-> FALSE]

\* some `allocated_memory -= size` of the sweep wraps
SweepOverflows(order) ==
    pc = "mark" /\ worklist = <<>> /\ SweepFrom(order, 1, SweepStart, FALSE).overflowed

\* collect, from the end of the mark loop to its return
Sweep(order, overflow_checks) ==
    /\ pc = "mark"
    /\ worklist = <<>>
    /\ \E st \in {SweepFrom(order, 1, SweepStart, overflow_checks)} :
       LET size_before == Cardinality(DOMAIN objects)
           size_after == Cardinality(DOMAIN st.objects)
       IN /\ objects' = st.objects
          /\ heap' = st.heap
          /\ allocated_memory' = st.allocated_memory
          /\ net' = Restrict(net, DOMAIN st.objects)
          /\ IF st.panicked
             THEN /\ pc' = "panicked"
                  /\ events' = st.events
                  /\ UNCHANGED last
             ELSE /\ pc' = "idle"
                  /\ events' = Append(st.events, Event("End", Null))
                  /\ last' = [last EXCEPT !.op = "collect", !.ret = Reclaimed(size_before, size_after)]
    /\ UNCHANGED <<worklist, universe, reloads, pre>>
    /\ UNCHANGED <<layout, threads, table_lock, lut, invoke>>

----------------------------------------------------------------------------
(* Mappings.  A Mapping is [deletions, identical, conversions]: a set of   *)
(* old types, a list of <<old, new>> pairs and a map from the GUID of an   *)
(* old type to [new_ty, field_mapping].  Its old types are descriptors of  *)
(* the assembly that is being replaced (asm 1), its new types descriptors  *)
(* of the assembly that replaces it (asm 0).                               *)

Copy(old_offset) == [kind |-> "Copy", old_offset |-> old_offset, old_ty |-> Ty("i64", 0)]
InsertField == [kind |-> "Insert", old_offset |-> 0, old_ty |-> Ty("i64", 0)]
Cast(old_offset, old_ty) == [kind |-> "Cast", old_offset |-> old_offset, old_ty |-> old_ty]
FieldMapping(new_ty, new_offset, action) ==
    [new_ty |-> new_ty, new_offset |-> new_offset, action |-> action]

Identical(gs) == [i \in 1..Len(gs) |-> <<Ty(gs[i], 1), Ty(gs[i], 0)>>]

\* universe A reloaded as universe B: Node gains a field, Inner becomes a value struct
MappingAB ==
    [deletions |-> {},
     identical |-> Identical(<<"ArrI64">>),
     conversions |->
       [NodeA |-> [new_ty |-> Ty("NodeB", 0),
                   field_mapping |->
                     <<FieldMapping(Ty("NodeB", 0), 0, Cast(8, Ty("NodeA", 1))),
                       FieldMapping(Ty("i64", 0), 8, Copy(0)),
                       FieldMapping(Ty("Fresh", 0), 16, InsertField)>>],
        OuterA |-> [new_ty |-> Ty("OuterB", 0),
                    field_mapping |->
                      <<FieldMapping(Ty("InnerB", 0), 0, Cast(0, Ty("InnerA", 1)))>>],
        InnerA |-> [new_ty |-> Ty("InnerB", 0),
                    field_mapping |->
                      <<FieldMapping(Ty("f64", 0), 0, Cast(0, Ty("i64", 1))),
                        FieldMapping(Ty("i64", 0), 8, InsertField)>>]]]

\* universe B reloaded as universe A: Fresh is removed, Inner is a gc struct again
MappingBA ==
    [deletions |-> {Ty("Fresh", 1)},
     identical |-> Identical(<<"ArrI64">>),
     conversions |->
       [NodeB |-> [new_ty |-> Ty("NodeA", 0),
                   field_mapping |->
                     <<FieldMapping(Ty("i64", 0), 0, Copy(8)),
                       FieldMapping(Ty("NodeA", 0), 8, Cast(0, Ty("NodeB", 1)))>>],
        OuterB |-> [new_ty |-> Ty("OuterA", 0),
                    field_mapping |->
                      <<FieldMapping(Ty("InnerA", 0), 0, Cast(0, Ty("InnerB", 1)))>>],
        InnerB |-> [new_ty |-> Ty("InnerA", 0),
                    field_mapping |->
                      <<FieldMapping(Ty("i64", 0), 0, Cast(0, Ty("f64", 1))),
                        FieldMapping(Ty("i64", 0), 8, InsertField)>>]]]

\* the same universe reloaded: every type is identical
MappingSame(u) ==
    [deletions |-> {},
     identical |-> IF u = "A"
                   THEN Identical(<<"NodeA", "OuterA", "InnerA", "ArrI64">>)
                   ELSE Identical(<<"NodeB", "Fresh", "OuterB", "InnerB", "ArrI64">>),
     conversions |-> <<>>]

\* universe C reloaded as universe D: Bag gains a field of an array type
MappingCD ==
    [deletions |-> {},
     identical |-> <<>>,
     conversions |->
       [BagA |-> [new_ty |-> Ty("BagB", 0),
                  field_mapping |->
                    <<FieldMapping(Ty("i64", 0), 0, Copy(0)),
                      FieldMapping(Ty("ArrInner", 0), 8, InsertField)>>]]]

MappingIds == {"AB", "BA", "same"}
MappingFrom(mid, u) ==
    IF mid = "AB" THEN "A" ELSE IF mid = "BA" THEN "B" ELSE IF mid = "CD" THEN "C" ELSE u
MappingTo(mid, u) ==
    IF mid = "AB" THEN "B" ELSE IF mid = "BA" THEN "A" ELSE IF mid = "CD" THEN "D" ELSE u
MappingOf(mid, u) ==
    IF mid = "AB" THEN MappingAB ELSE IF mid = "BA" THEN MappingBA
    ELSE IF mid = "CD" THEN MappingCD ELSE MappingSame(u)

\* cast::try_cast_from_to: the converted word, or "none" when the table has no entry
CastTable == {<<"i64", "f64">>}
try_cast_from_to(old_g, new_g, v) ==
    IF <<old_g, new_g>> \in CastTable
    THEN [ok |-> TRUE, v |-> IF v = 0 \/ v = Uninit THEN v ELSE v + 1000]
    ELSE [ok |-> FALSE, v |-> 0]

----------------------------------------------------------------------------
(* Raw memory.  A pointer is [blk, off]: a block of the heap and a byte    *)
(* offset into it.                                                         *)

Ptr(blk, off) == [blk |-> blk, off |-> off]
ReadWord(hp, p) == hp[p.blk].data[WordAt(p.off)]
WriteWord(hp, p, v) == [hp EXCEPT ![p.blk].data[WordAt(p.off)] = v]

\* std::ptr::copy_nonoverlapping(src, dst, n)
CopyBytesNone(hp, src, dst, n) == hp
CopyBytesSwapped(hp, src, dst, n) ==
    [hp EXCEPT ![src.blk].data =
        [i \in 1..Len(hp[src.blk].data) |->
            IF i >= WordAt(src.off) /\ i < WordAt(src.off) + (n \div WordSize)
            THEN hp[dst.blk].data[WordAt(dst.off) + (i - WordAt(src.off))]
            ELSE hp[src.blk].data[i]]]
CopyBytes(hp, src, dst, n) ==
    [hp EXCEPT ![dst.blk].data =
        [i \in 1..Len(hp[dst.blk].data) |->
            IF i >= WordAt(dst.off) /\ i < WordAt(dst.off) + (n \div WordSize)
            THEN hp[src.blk].data[WordAt(src.off) + (i - WordAt(dst.off))]
            ELSE hp[dst.blk].data[i]]]

\* std::ptr::write_bytes(dst, 0, n)
ZeroBytes(hp, dst, n) ==
    [hp EXCEPT ![dst.blk].data =
        [i \in 1..Len(hp[dst.blk].data) |->
            IF i >= WordAt(dst.off) /\ i < WordAt(dst.off) + (n \div WordSize)
            THEN 0 ELSE hp[dst.blk].data[i]]]

----------------------------------------------------------------------------
(* map_memory.  The state threaded through the passes is                   *)
(*   [objects, heap, new_allocations, boxes, fault, garbage]:              *)
(* boxes are the records allocated by the call and not yet in the table,   *)
(* garbage is what the allocator's uninitialised memory holds.             *)

\* alloc_obj while the table is borrowed: the record is kept outside the table
AllocStaged(st, ty) ==
    LET handle == FreshAddr(DOMAIN st.objects \cup DOMAIN st.heap \cup DOMAIN st.boxes)
        ptr == FreshAddr(DOMAIN st.objects \cup DOMAIN st.heap \cup DOMAIN st.boxes \cup {handle})
        info == [ptr |-> ptr, length |-> 1, capacity |-> 1, ty |-> ty,
                 roots |-> UZero(RootsLimbs), color |-> "White"]
    IN [handle |-> handle, ptr |-> ptr,
        st |-> [st EXCEPT !.heap = HeapAlloc(st.heap, ptr, layout_size(ty), st.garbage),
                          !.boxes = Insert(st.boxes, handle, info)]]

\* write the handle of the staged object to the field, then new_allocations.push(object)
PushStaged(st, field_dest, handle) ==
    [st EXCEPT !.heap = [@ EXCEPT ![field_dest.blk].data[(field_dest.off \div WordSize) + 1] = handle],
               !.new_allocations = Append(@, handle)]

ZeroStagedSkipped(a, ty) == a

\* std::ptr::write_bytes(object.ptr, 0, new_ty.layout().size()) on a staged object
ZeroStaged(a, ty) ==
    [handle |-> a.handle, ptr |-> a.ptr,
     st |-> [a.st EXCEPT !.heap = [@ EXCEPT ![a.ptr].data =
                                     [i \in 1..Len(@) |->
                                        IF i <= layout_size(ty) \div WordSize THEN 0 ELSE @[i]]]]]

\* a fresh gc object of ty, zeroed, with its handle written to the field
FreshZeroed(a, ty, field_dest) == PushStaged(ZeroStaged(a, ty).st, field_dest, a.handle)

\* the record a handle read from a payload points at
Deref(st, handle) ==
    IF handle \in DOMAIN st.objects THEN st.objects[handle] ELSE st.boxes[handle]

RECURSIVE map_fields(_, _, _, _, _, _)

\* struct(value) -> struct(gc) of the same struct: map the value into the staged object
MapIntoStaged(a, conversions, sub, field_src, field_dest) ==
    PushStaged(map_fields(a.st, conversions, sub, 1, field_src, Ptr(a.ptr, 0)),
               field_dest, a.handle)

map_fields(st, conversions, mapping, i, src, dest) ==
    IF i > Len(mapping) \/ st.fault THEN st
    ELSE
    LET new_ty == mapping[i].new_ty
        action == mapping[i].action
        field_dest == Ptr(dest.blk, dest.off + mapping[i].new_offset)
        field_src == Ptr(src.blk, src.off + action.old_offset)
        old_ty == action.old_ty
        is_same_struct == name(old_ty) = name(new_ty)
        has_conversion == old_ty.g \in DOMAIN conversions
        sub == conversions[old_ty.g].field_mapping
        faulted == [st EXCEPT !.fault = TRUE]
        fresh_zeroed == FreshZeroed(AllocStaged(st, new_ty), new_ty, field_dest)
        after ==
            IF action.kind = "Cast" THEN
                IF is_struct(old_ty) THEN
                    IF is_stack_allocated(old_ty) THEN
                        IF is_stack_allocated(new_ty) THEN
                            \* struct(value) -> struct(value)
                            IF is_same_struct
                            THEN IF has_conversion
                                 THEN map_fields(st, conversions, sub, 1, field_src, field_dest)
                                 ELSE faulted
                            ELSE st
                        ELSE
                            \* struct(value) -> struct(gc)
                            IF is_same_struct
                            THEN IF has_conversion
                                 THEN MapIntoStaged(AllocStaged(st, new_ty), conversions, sub,
                                                    field_src, field_dest)
                                 ELSE faulted
                            ELSE fresh_zeroed
                    ELSE IF ~is_stack_allocated(new_ty) THEN
                        \* struct(gc) -> struct(gc)
                        IF is_same_struct
                        THEN [st EXCEPT !.heap = WriteWord(st.heap, field_dest,
                                                           ReadWord(st.heap, field_src))]
                        ELSE fresh_zeroed
                    ELSE
                        \* struct(gc) -> struct(value)
                        LET field_handle == ReadWord(st.heap, field_src)
                        IN IF field_handle \notin DOMAIN st.objects \cup DOMAIN st.boxes
                           THEN faulted
                           ELSE LET obj == Deref(st, field_handle)
                                IN IF is_same_struct
                                   THEN IF TyEq(obj.ty, old_ty)
                                        THEN IF has_conversion
                                             THEN map_fields(st, conversions, sub, 1,
                                                             Ptr(obj.ptr, 0), field_dest)
                                             ELSE faulted
                                        ELSE [st EXCEPT
                                                !.heap = CopyBytes(st.heap, Ptr(obj.ptr, 0),
                                                                   field_dest,
                                                                   layout_size(obj.ty))]
                                   ELSE st
                ELSE
                    LET c == try_cast_from_to(old_ty.g, new_ty.g, ReadWord(st.heap, field_src))
                    IN IF c.ok THEN [st EXCEPT !.heap = WriteWord(st.heap, field_dest, c.v)]
                       ELSE st
            ELSE IF action.kind = "Copy" THEN
                [st EXCEPT !.heap = CopyBytes(st.heap, field_src, field_dest,
                                              layout_size(new_ty))]
            ELSE
                IF ~is_stack_allocated(new_ty) THEN fresh_zeroed ELSE st
    IN map_fields(after, conversions, mapping, i + 1, src, dest)

\* the handles of the records of a deleted type, in the order of the hash map
DeletedNegated(objs, mapping, order) ==
    SelectSeq(order, LAMBDA h : ~\E d \in mapping.deletions : TyEq(objs[h].ty, d))
Deleted(objs, mapping, order) ==
    SelectSeq(order, LAMBDA h : \E d \in mapping.deletions : TyEq(objs[h].ty, d))

\* Pass 1: the records of an identical old type get the new type
IdenticalPassSkipped(objs, identical, i) == objs
IdenticalPassUnrooted(objs, identical, i) ==
    [h \in DOMAIN objs |->
        IF \E k \in 1..Len(identical) : TyEq(objs[h].ty, identical[k][1])
        THEN [objs[h] EXCEPT !.ty.asm = 0, !.roots = UZero(RootsLimbs)]
        ELSE objs[h]]
RECURSIVE IdenticalPass(_, _, _)
IdenticalPass(objs, identical, i) ==
    IF i > Len(identical) THEN objs
    ELSE IdenticalPass([h \in DOMAIN objs |->
                          IF TyEq(objs[h].ty, identical[i][1])
                          THEN [objs[h] EXCEPT !.ty = identical[i][2]]
                          ELSE objs[h]],
                       identical, i + 1)

\* after map_fields: release the old payload with old_ty.layout(), update the record in place
FinishConvertUnrooted(m, h, old_ty, new_ty, src, dest) ==
    IF m.fault \/ m.heap[src].size # layout_size(old_ty)
    THEN [m EXCEPT !.fault = TRUE]
    ELSE [m EXCEPT !.heap = HeapFree(@, src),
                   !.objects = [@ EXCEPT ![h] = [ptr |-> dest, length |-> 1, capacity |-> 1,
                                                 roots |-> UZero(RootsLimbs),
                                                 color |-> "White", ty |-> new_ty]]]
FinishConvert(m, h, old_ty, new_ty, src, dest) ==
    IF m.fault \/ m.heap[src].size # layout_size(old_ty)
    THEN [m EXCEPT !.fault = TRUE]
    ELSE [m EXCEPT !.heap = HeapFree(@, src),
                   !.objects = [@ EXCEPT ![h] = [ptr |-> dest,
                                                 length |-> @.length,
                                                 capacity |-> @.capacity,
                                                 roots |-> @.roots,
                                                 color |-> @.color,
                                                 ty |-> new_ty]]]

\* map the fields of one record into a zeroed payload of new_ty.layout()
ConvertInto(st, conversions, old_g, h, dest) ==
    FinishConvert(map_fields([st EXCEPT !.heap = HeapAlloc(@, dest,
                                                  layout_size(conversions[old_g].new_ty), 0)],
                             conversions, conversions[old_g].field_mapping, 1,
                             Ptr(st.objects[h].ptr, 0), Ptr(dest, 0)),
                  h, st.objects[h].ty, conversions[old_g].new_ty, st.objects[h].ptr, dest)

\* the body of the conversion loop for one record
ConvertObject(st, conversions, old_g, h) ==
    ConvertInto(st, conversions, old_g, h,
                FreshAddr(DOMAIN st.objects \cup DOMAIN st.heap \cup DOMAIN st.boxes))

\* Pass 2: for each conversion, in the order of the hash map, each record of its old type
RECURSIVE ConversionPass(_, _, _, _, _, _)
ConversionPass(st, conversions, conv_order, c, obj_order, i) ==
    IF c > Len(conv_order) \/ st.fault THEN st
    ELSE IF i > Len(obj_order)
         THEN ConversionPass(st, conversions, conv_order, c + 1, obj_order, 1)
         ELSE IF st.objects[obj_order[i]].ty.g = conv_order[c]
              THEN ConversionPass(ConvertObject(st, conversions, conv_order[c], obj_order[i]),
                                  conversions, conv_order, c, obj_order, i + 1)
              ELSE ConversionPass(st, conversions, conv_order, c, obj_order, i + 1)

\* the commit loop without self.log_alloc(handle, ty)
RECURSIVE CommitFromUnlogged(_, _, _)
CommitFromUnlogged(st, staged, i) ==
    IF i > Len(staged) THEN st
    ELSE CommitFromUnlogged([st EXCEPT !.objects = Insert(st.objects, staged[i],
                                                         st.boxes[staged[i]])],
                            staged, i + 1)

\* the commit loop: insert each staged record and log its allocation
RECURSIVE CommitFrom(_, _, _)
CommitFrom(st, staged, i) ==
    IF i > Len(staged) THEN st
    ELSE LET handle == staged[i]
             object == st.boxes[handle]
         IN CommitFrom([st EXCEPT
                          !.objects = Insert(st.objects, handle, object),
                          !.allocated_memory = UAdd(st.allocated_memory,
                                                    layout_size(object.ty)).v,
                          !.events = Append(st.events, Event("Allocation", handle))],
                       staged, i + 1)

\* the host has loaded the new assembly: every descriptor in the table is of an earlier one
Superseded(objs) == [h \in DOMAIN objs |-> [objs[h] EXCEPT !.ty.asm = 1]]

\* the order in which a second run of Pass 2 visits the conversions
OtherOrder(conversions) == CHOOSE p \in Perms(DOMAIN conversions) : TRUE

\* what a caller can tell of a record: its type and its payload, where a handle of a
\* record that is not among `old` stands for what that record holds, not for its address
RECURSIVE ViewOf(_, _, _, _)
ViewOf(objs, hp, old, h) ==
    LET sl == PayloadSlots(objs[h].ty.g, objs[h].length)
        data == hp[objs[h].ptr].data
    IN [ty |-> objs[h].ty,
        data |-> [i \in 1..Len(sl) |->
                    LET w == data[WordAt(sl[i].off)]
                    IN IF TypeTable[sl[i].g].kind = "gc" /\ w \in DOMAIN objs \ old
                       THEN [word |-> Null, made |-> <<ViewOf(objs, hp, old, w)>>]
                       ELSE [word |-> w, made |-> <<>>]]]
View(objs, hp, old) == [h \in old |-> ViewOf(objs, hp, old, h)]

\* the outcome of the passes st went through, for the records of `old`
Outcome(st, old) ==
    [fault |-> st.fault,
     view |-> IF st.fault THEN <<>> ELSE View(st.objects, st.heap, old)]

\* what the two passes left: the keys of the table after each, and the staged records
Passes(st1, st2) ==
    [keys |-> <<DOMAIN st1.objects, DOMAIN st2.objects>>,
     types |-> [h \in DOMAIN st2.objects |-> st2.objects[h].ty],
     boxes |-> st2.boxes, new_allocations |-> st2.new_allocations]

\* MarkSweep::map_memory, for a table that holds at most `limit` records when it returns
MapMemoryUpTo(limit, mid, obj_order, conv_order, garbage) ==
    /\ pc = "idle"
    /\ MappingFrom(mid, universe) = universe
    /\ reloads < MaxReloads
    /\ reloads' = reloads + 1
    /\ LET mapping == MappingOf(mid, universe)
           loaded == Superseded(objects)
           deleted == Deleted(loaded, mapping, obj_order)
           st1 == [objects |-> IdenticalPass(loaded, mapping.identical, 1),
                   heap |-> heap, new_allocations |-> <<>>, boxes |-> <<>>, fault |-> FALSE,
                   garbage |-> garbage,
                   allocated_memory |-> allocated_memory, events |-> <<>>]
       IN \E st2 \in {ConversionPass(st1, mapping.conversions, conv_order, 1, obj_order, 1)} :
          \E st3 \in {CommitFrom(st2, st2.new_allocations, 1)} :
          \E other \in {ConversionPass(st1, mapping.conversions,
                                       OtherOrder(mapping.conversions), 1, obj_order, 1)} :
          \E rerun \in {Outcome(CommitFrom(other, other.new_allocations, 1), DOMAIN objects)} :
             /\ Cardinality(DOMAIN st3.objects) <= limit
             /\ pre' = Snapshot(loaded)
             /\ universe' = MappingTo(mid, universe)
             /\ IF st2.fault
                THEN /\ pc' = "panicked"
                     /\ objects' = st2.objects
                     /\ heap' = st2.heap
                     /\ last' = [NoCall EXCEPT !.op = "mapping", !.mapping = mid,
                                               !.conv_order = conv_order, !.other = rerun]
                     /\ UNCHANGED <<allocated_memory, events, net>>
                ELSE /\ pc' = pc
                     /\ objects' = st3.objects
                     /\ heap' = st3.heap
                     /\ allocated_memory' = st3.allocated_memory
                     /\ events' = st3.events
                     /\ net' = [h \in DOMAIN st3.objects |->
                                  IF h \in DOMAIN net THEN net[h] ELSE 0]
                     /\ last' = [NoCall EXCEPT !.op = "map_memory", !.mapping = mid,
                                               !.deleted = deleted,
                                               !.conv_order = conv_order, !.other = rerun,
                                               !.passes = Passes(st1, st2)]
    /\ UNCHANGED worklist
    /\ UNCHANGED <<layout, threads, table_lock, lut, invoke>>

MapMemory(mid, obj_order, conv_order, garbage) ==
    MapMemoryUpTo(MaxObjects + 1, mid, obj_order, conv_order, garbage)

----------------------------------------------------------------------------
Next ==
    \/ \E g \in UniverseTypes(universe) :
          /\ TypeTable[g].kind = "gc"
          /\ \E content \in HostContents(objects, g, 1, FALSE) : Alloc(g, content)
    \/ \E g \in UniverseTypes(universe), length \in ArrayLengths :
          /\ TypeTable[g].kind = "array"
          /\ AllocArray(g, length, FALSE)
    \/ \E h \in DOMAIN objects :
          \E slot \in Range(PayloadSlots(objects[h].ty.g, objects[h].length)) :
             /\ TypeTable[slot.g].kind = "gc"
             /\ \E v \in SlotVals(objects, slot.g) :
                   WriteField(h, WordAt(slot.off), v)
    \/ \E h \in DOMAIN objects :
          \E overflow_checks \in Builds(root_incr(objects[h].roots).carry # 0) :
             Root(h, overflow_checks)
    \/ \E h \in DOMAIN objects :
          \E overflow_checks \in Builds(root_decr(objects[h].roots).carry # 0) :
             Unroot(h, overflow_checks)
    \/ \E order \in Perms(DOMAIN objects) : CollectBegin(order)
    \/ MarkStep
    \/ \E mid \in MappingIds :
          \E obj_order \in Perms(DOMAIN objects) :
             \E conv_order \in Perms(DOMAIN MappingOf(mid, universe).conversions) :
                \E garbage \in GarbageVals : MapMemory(mid, obj_order, conv_order, garbage)
    \/ \E order \in Perms(DOMAIN objects) :
          \E overflow_checks \in Builds(SweepOverflows(order)) : Sweep(order, overflow_checks)

Spec == Init /\ [][Next]_vars

\* The collector and the host without reloads; the collector may run before the host has
\* stored to every handle slot of an object it allocated
NextCollect ==
    \/ \E g \in UniverseTypes(universe) :
          /\ TypeTable[g].kind = "gc"
          /\ \E content \in HostContents(objects, g, 1, TRUE) : Alloc(g, content)
    \/ \E g \in UniverseTypes(universe), length \in ArrayLengths :
          /\ TypeTable[g].kind = "array"
          /\ AllocArray(g, length, TRUE)
    \/ \E h \in DOMAIN objects :
          \E slot \in Range(PayloadSlots(objects[h].ty.g, objects[h].length)) :
             /\ TypeTable[slot.g].kind = "gc"
             /\ \E v \in SlotVals(objects, slot.g) :
                   WriteField(h, WordAt(slot.off), v)
    \/ \E h \in DOMAIN objects :
          \E overflow_checks \in Builds(root_incr(objects[h].roots).carry # 0) :
             Root(h, overflow_checks)
    \/ \E h \in DOMAIN objects :
          \E overflow_checks \in Builds(root_decr(objects[h].roots).carry # 0) :
             Unroot(h, overflow_checks)
    \/ \E order \in Perms(DOMAIN objects) : CollectBegin(order)
    \/ MarkStep
    \/ \E order \in Perms(DOMAIN objects) :
          \E overflow_checks \in Builds(SweepOverflows(order)) : Sweep(order, overflow_checks)

SpecCollect == Init /\ [][NextCollect]_vars

\* The host builds a table of up to MaxObjects + 1 unrooted structs and reloads once;
\* as many records may be staged by the reload as fit in a table of 2 * MaxObjects
NextReload ==
    \/ \E g \in UniverseTypes(universe) :
          /\ TypeTable[g].kind = "gc"
          /\ reloads = 0
          /\ \E content \in HostContents(objects, g, 1, FALSE) :
                AllocUpTo(MaxObjects + 1, g, content)
    \/ \E h \in DOMAIN objects :
          \E slot \in Range(PayloadSlots(objects[h].ty.g, objects[h].length)) :
             /\ TypeTable[slot.g].kind = "gc"
             /\ reloads = 0
             /\ \E v \in SlotVals(objects, slot.g) :
                   WriteField(h, WordAt(slot.off), v)
    \/ \E mid \in MappingIds :
          \E obj_order \in Perms(DOMAIN objects) :
             \E conv_order \in Perms(DOMAIN MappingOf(mid, universe).conversions) :
                \E garbage \in GarbageVals :
                   MapMemoryUpTo(2 * MaxObjects, mid, obj_order, conv_order, garbage)

SpecReload == Init /\ [][NextReload]_vars

\* The host builds a table of Bag structs, roots some, reloads an assembly that adds a
\* field of an array type to Bag, and collects
InitInsertArray ==
    /\ objects = <<>>
    /\ heap = <<>>
    /\ allocated_memory = UZero(UsizeLimbs)
    /\ events = <<>>
    /\ pc = "idle"
    /\ worklist = <<>>
    /\ universe = "C"
    /\ reloads = 0
    /\ net = <<>>
    /\ last = NoCall
    /\ pre = NoPre
    /\ layout = NoLayout
    /\ threads = <<>>
    /\ table_lock = 0
    /\ lut = NoLut
    /\ invoke = NoInvoke

NextInsertArray ==
    \/ \E g \in UniverseTypes(universe) :
          /\ TypeTable[g].kind = "gc"
          /\ reloads = 0
          /\ \E content \in HostContents(objects, g, 1, FALSE) : Alloc(g, content)
    \/ \E h \in DOMAIN objects :
          /\ objects[h].ty.g = "BagA"
          /\ \E overflow_checks \in Builds(root_incr(objects[h].roots).carry # 0) :
                Root(h, overflow_checks)
    \/ \E obj_order \in Perms(DOMAIN objects) :
          \E garbage \in GarbageVals :
             MapMemoryUpTo(2 * MaxObjects, "CD", obj_order, <<"BagA">>, garbage)
    \/ \E order \in Perms(DOMAIN objects) : CollectBegin(order)
    \/ MarkStep
    \/ \E order \in Perms(DOMAIN objects) :
          \E overflow_checks \in Builds(SweepOverflows(order)) : Sweep(order, overflow_checks)

SpecInsertArray == InitInsertArray /\ [][NextInsertArray]_vars

\* The host builds a graph of the structs of assembly A, cycles and self-references
\* included, roots some of them and collects; a collect that has begun goes on: nothing
\* but its own loop and sweep stands between the lock it holds and its return
InitMark ==
    /\ objects = <<>>
    /\ heap = <<>>
    /\ allocated_memory = UZero(UsizeLimbs)
    /\ events = <<>>
    /\ pc = "idle"
    /\ worklist = <<>>
    /\ universe = "A"
    /\ reloads = 0
    /\ net = <<>>
    /\ last = NoCall
    /\ pre = NoPre
    /\ layout = NoLayout
    /\ threads = <<>>
    /\ table_lock = 0
    /\ lut = NoLut
    /\ invoke = NoInvoke

SweepStep ==
    \E order \in Perms(DOMAIN objects) :
       \E overflow_checks \in Builds(SweepOverflows(order)) : Sweep(order, overflow_checks)

NextMark ==
    \/ \E g \in UniverseTypes(universe) :
          /\ TypeTable[g].kind = "gc"
          /\ \E content \in HostContents(objects, g, 1, FALSE) : Alloc(g, content)
    \/ \E h \in DOMAIN objects :
          \E slot \in Range(PayloadSlots(objects[h].ty.g, objects[h].length)) :
             /\ TypeTable[slot.g].kind = "gc"
             /\ \E v \in SlotVals(objects, slot.g) :
                   WriteField(h, WordAt(slot.off), v)
    \/ \E h \in DOMAIN objects :
          \E overflow_checks \in Builds(root_incr(objects[h].roots).carry # 0) :
             Root(h, overflow_checks)
    \/ \E order \in Perms(DOMAIN objects) : CollectBegin(order)
    \/ MarkStep
    \/ SweepStep

SpecMark == InitMark /\ [][NextMark]_vars /\ WF_vars(MarkStep) /\ WF_vars(SweepStep)

----------------------------------------------------------------------------
(* Host threads.  A call of a thread is a sequence of steps; the steps between taking *)
(* and releasing a lock that no other step reads or writes under are one step.  A     *)
(* thread allocates Node objects, roots and unroots, collects, queries and reloads.   *)
(* A thread that panics while it holds the table lock ends the use of the table: the  *)
(* lock stays taken.                                                                  *)

Threads == {1, 2}

NoSeen == [op |-> "none", value |-> <<>>, uncounted |-> {}, writer |-> "none"]
NoSnap == [objects |-> <<>>, heap |-> <<>>]
IdleThread ==
    [pc |-> "idle", h |-> Null, ty |-> "none", calls |-> 0, rooted |-> {},
     worklist |-> <<>>, staged |-> <<>>, boxes |-> <<>>, snap |-> NoSnap, seen |-> NoSeen]

InitThreads ==
    /\ objects = <<>>
    /\ heap = <<>>
    /\ allocated_memory = UZero(UsizeLimbs)
    /\ events = <<>>
    /\ pc = "idle"
    /\ worklist = <<>>
    /\ universe = "A"
    /\ reloads = 0
    /\ net = <<>>
    /\ last = NoCall
    /\ pre = NoPre
    /\ layout = NoLayout
    /\ threads = [t \in Threads |-> IdleThread]
    /\ table_lock = 0
    /\ lut = NoLut
    /\ invoke = NoInvoke

ThreadTypes(u) == IF u = "A" THEN {"NodeA"} ELSE {"NodeB"}

\* self.objects.write(): granted when no thread holds the lock; a reader holds it only
\* within its step
CanLockAlways(t) == TRUE
CanLock(t) == table_lock = 0

\* self.objects.read()
CanRead(t) == table_lock = 0

\* records that are in the table while the log_alloc of their alloc has not run
Uncounted ==
    {threads[u].h : u \in {v \in Threads : threads[v].pc = "log_alloc"}} \cap DOMAIN objects

\* the step of its call the holder of the table lock is at; map_memory is at its commit
\* loop while new_allocations is not exhausted
Writer ==
    IF table_lock = 0 THEN "none"
    ELSE IF threads[table_lock].pc = "map_commit" /\ threads[table_lock].staged = <<>>
         THEN "map_return"
         ELSE threads[table_lock].pc

\* a thread begins a call
Begin(t) ==
    /\ threads[t].pc = "idle"
    /\ threads[1].calls + threads[2].calls < MaxCalls

Called(th, at) == [th EXCEPT !.pc = at, !.calls = @ + 1, !.seen = NoSeen, !.snap = NoSnap]

unseq == <<pc, worklist, net, last, pre, layout, lut, invoke>>

\* MarkSweep::alloc up to the release of the table lock, and the host's initialising stores
T_Alloc(t, g, content) ==
    LET object == alloc_obj(objects, heap, Ty(g, 0))
    IN /\ Begin(t)
       /\ Cardinality(DOMAIN objects) < MaxObjects
       /\ CanLock(t)
       /\ objects' = Insert(objects, object.handle, object.info)
       /\ heap' = [HeapAlloc(heap, object.info.ptr, object.size, Uninit)
                     EXCEPT ![object.info.ptr].data = content]
       /\ threads' = [threads EXCEPT ![t] = [Called(@, "log_alloc") EXCEPT
                                               !.h = object.handle, !.ty = g]]
       /\ UNCHANGED <<allocated_memory, events, universe, reloads, table_lock>>
       /\ UNCHANGED unseq

\* MarkSweep::alloc: self.log_alloc(handle, ty), and the return
T_LogAlloc(t) ==
    /\ threads[t].pc = "log_alloc"
    /\ allocated_memory' = UAdd(allocated_memory, layout_size(Ty(threads[t].ty, 0))).v
    /\ events' = Append(events, Event("Allocation", threads[t].h))
    /\ threads' = [threads EXCEPT ![t].pc = "idle"]
    /\ UNCHANGED <<objects, heap, universe, reloads, table_lock>>
    /\ UNCHANGED unseq

\* a thread calls root or unroot: it roots a record it holds no root of, and unroots one
\* it holds a root of; the handles a host holds are those an alloc has returned
T_RootCall(t, h) ==
    /\ Begin(t)
    /\ h \notin Uncounted
    /\ h \notin threads[t].rooted
    /\ threads' = [threads EXCEPT ![t] = [Called(@, "root") EXCEPT !.h = h]]
    /\ UNCHANGED <<objects, heap, allocated_memory, events, universe, reloads, table_lock>>
    /\ UNCHANGED unseq

T_UnrootCall(t, h) ==
    /\ Begin(t)
    /\ h \in threads[t].rooted
    /\ threads' = [threads EXCEPT ![t] = [Called(@, "unroot") EXCEPT !.h = h]]
    /\ UNCHANGED <<objects, heap, allocated_memory, events, universe, reloads, table_lock>>
    /\ UNCHANGED unseq

\* MarkSweep::root; a handle whose record a collect has freed since the call is dangling
T_Root(t) ==
    /\ threads[t].pc = "root"
    /\ CanLock(t)
    /\ IF threads[t].h \in DOMAIN objects
       THEN /\ objects' = [objects EXCEPT ![threads[t].h].roots = root_incr(@).v]
            /\ threads' = [threads EXCEPT ![t].pc = "idle", ![t].rooted = @ \cup {threads[t].h}]
       ELSE /\ threads' = [threads EXCEPT ![t].pc = "undefined"]
            /\ UNCHANGED objects
    /\ UNCHANGED <<heap, allocated_memory, events, universe, reloads, table_lock>>
    /\ UNCHANGED unseq

\* MarkSweep::unroot
T_Unroot(t) ==
    /\ threads[t].pc = "unroot"
    /\ CanLock(t)
    /\ objects' = [objects EXCEPT ![threads[t].h].roots = root_decr(@).v]
    /\ threads' = [threads EXCEPT ![t].pc = "idle", ![t].rooted = @ \ {threads[t].h}]
    /\ UNCHANGED <<heap, allocated_memory, events, universe, reloads, table_lock>>
    /\ UNCHANGED unseq

\* MarkSweep::stats
T_Stats(t) ==
    /\ Begin(t)
    /\ threads' = [threads EXCEPT ![t] = [Called(@, "idle") EXCEPT
                                            !.seen = [op |-> "stats", value |-> allocated_memory,
                                                      uncounted |-> Uncounted,
                                                      writer |-> Writer]]]
    /\ UNCHANGED <<objects, heap, allocated_memory, events, universe, reloads, table_lock>>
    /\ UNCHANGED unseq

\* MarkSweep::ptr_type
T_PtrType(t, h) ==
    /\ Begin(t)
    /\ h \notin Uncounted
    /\ CanRead(t)
    /\ threads' = [threads EXCEPT ![t] = [Called(@, "idle") EXCEPT
                                            !.seen = [op |-> "ptr_type", value |-> objects[h].ty,
                                                      uncounted |-> Uncounted \cap {h},
                                                      writer |-> Writer]]]
    /\ UNCHANGED <<objects, heap, allocated_memory, events, universe, reloads, table_lock>>
    /\ UNCHANGED unseq

\* MarkSweep::collect: the Start event
T_CollectStart(t) ==
    /\ Begin(t)
    /\ events' = Append(events, Event("Start", Null))
    /\ threads' = [threads EXCEPT ![t] = Called(@, "collect_lock")]
    /\ UNCHANGED <<objects, heap, allocated_memory, universe, reloads, table_lock>>
    /\ UNCHANGED unseq

\* MarkSweep::collect: the table lock and the root scan
T_CollectScan(t, order) ==
    /\ threads[t].pc = "collect_lock"
    /\ CanLock(t)
    /\ table_lock' = t
    /\ threads' = [threads EXCEPT
                     ![t].pc = "collect_mark",
                     ![t].worklist = SelectSeq(order, LAMBDA h : IsRooted(objects[h])),
                     ![t].snap = [objects |-> objects, heap |-> heap]]
    /\ UNCHANGED <<objects, heap, allocated_memory, events, universe, reloads>>
    /\ UNCHANGED unseq

\* MarkSweep::collect: one iteration of the mark loop
T_CollectMark(t) ==
    /\ threads[t].pc = "collect_mark"
    /\ threads[t].worklist # <<>>
    /\ LET next == Head(threads[t].worklist)
       IN \E m \in {TraceRefs(Trace(objects, heap, next), objects, Tail(threads[t].worklist))} :
          IF m.invalid
          THEN /\ objects' = m.objects
               /\ threads' = [threads EXCEPT ![t].pc = "panicked", ![t].worklist = m.worklist]
          ELSE /\ objects' = [m.objects EXCEPT ![next].color = "Black"]
               /\ threads' = [threads EXCEPT ![t].worklist = m.worklist]
    /\ UNCHANGED <<heap, allocated_memory, events, universe, reloads, table_lock>>
    /\ UNCHANGED unseq

\* MarkSweep::collect: the sweep, the End event, the release of the table lock
T_SweepOverflows(t, order) ==
    /\ threads[t].pc = "collect_mark"
    /\ threads[t].worklist = <<>>
    /\ SweepFrom(order, 1, SweepStart, FALSE).overflowed

T_CollectSweep(t, order, overflow_checks) ==
    /\ threads[t].pc = "collect_mark"
    /\ threads[t].worklist = <<>>
    /\ \E st \in {SweepFrom(order, 1, SweepStart, overflow_checks)} :
          /\ objects' = st.objects
          /\ heap' = st.heap
          /\ allocated_memory' = st.allocated_memory
          /\ IF st.panicked
             THEN /\ events' = st.events
                  /\ threads' = [threads EXCEPT ![t].pc = "panicked"]
                  /\ UNCHANGED table_lock
             ELSE /\ events' = Append(st.events, Event("End", Null))
                  /\ table_lock' = 0
                  /\ threads' = [threads EXCEPT
                                   ![t].pc = "idle",
                                   ![t].seen = [op |-> "collect", value |-> st.objects,
                                                uncounted |-> Uncounted, writer |-> "none"]]
    /\ UNCHANGED <<universe, reloads>>
    /\ UNCHANGED unseq

\* MarkSweep::map_memory: the table lock, the deleted set and the two passes
T_MapLock(t, obj_order, conv_order, garbage) ==
    /\ Begin(t)
    /\ universe = "A"
    /\ reloads < MaxReloads
    /\ CanLock(t)
    /\ LET mapping == MappingOf("AB", universe)
           st1 == [objects |-> IdenticalPass(Superseded(objects), mapping.identical, 1),
                   heap |-> heap, new_allocations |-> <<>>, boxes |-> <<>>, fault |-> FALSE,
                   garbage |-> garbage,
                   allocated_memory |-> allocated_memory, events |-> <<>>]
       IN \E st2 \in {ConversionPass(st1, mapping.conversions, conv_order, 1, obj_order, 1)} :
             /\ Cardinality(DOMAIN st2.objects) + Len(st2.new_allocations) <= MaxObjects + 1
             /\ objects' = st2.objects
             /\ heap' = st2.heap
             /\ IF st2.fault
                THEN /\ threads' = [threads EXCEPT ![t] = Called(@, "panicked")]
                     /\ table_lock' = t
                ELSE /\ threads' = [threads EXCEPT ![t] = [Called(@, "map_commit") EXCEPT
                                                          !.staged = st2.new_allocations,
                                                          !.boxes = st2.boxes]]
                     /\ table_lock' = t
    /\ universe' = "B"
    /\ reloads' = reloads + 1
    /\ UNCHANGED <<allocated_memory, events>>
    /\ UNCHANGED unseq

\* MarkSweep::map_memory: one iteration of the commit loop
T_MapCommit(t) ==
    /\ threads[t].pc = "map_commit"
    /\ threads[t].staged # <<>>
    /\ LET handle == Head(threads[t].staged)
           object == threads[t].boxes[handle]
       IN /\ objects' = Insert(objects, handle, object)
          /\ allocated_memory' = UAdd(allocated_memory, layout_size(object.ty)).v
          /\ events' = Append(events, Event("Allocation", handle))
    /\ threads' = [threads EXCEPT ![t].staged = Tail(@)]
    /\ UNCHANGED <<heap, universe, reloads, table_lock>>
    /\ UNCHANGED unseq

\* MarkSweep::map_memory: the return, which releases the table lock
T_MapReturn(t) ==
    /\ threads[t].pc = "map_commit"
    /\ threads[t].staged = <<>>
    /\ table_lock' = 0
    /\ threads' = [threads EXCEPT ![t].pc = "idle", ![t].boxes = <<>>]
    /\ UNCHANGED <<objects, heap, allocated_memory, events, universe, reloads>>
    /\ UNCHANGED unseq

NextThreads ==
    \/ \E t \in Threads, g \in ThreadTypes(universe) :
          \E content \in HostContents(objects, g, 1, FALSE) : T_Alloc(t, g, content)
    \/ \E t \in Threads : T_LogAlloc(t)
    \/ \E t \in Threads, h \in DOMAIN objects : T_RootCall(t, h)
    \/ \E t \in Threads, h \in DOMAIN objects : T_UnrootCall(t, h)
    \/ \E t \in Threads : T_Root(t)
    \/ \E t \in Threads : T_Unroot(t)
    \/ \E t \in Threads : T_Stats(t)
    \/ \E t \in Threads, h \in DOMAIN objects : T_PtrType(t, h)
    \/ \E t \in Threads : T_CollectStart(t)
    \/ \E t \in Threads, order \in Perms(DOMAIN objects) : T_CollectScan(t, order)
    \/ \E t \in Threads : T_CollectMark(t)
    \/ \E t \in Threads, order \in Perms(DOMAIN objects) :
          \E overflow_checks \in Builds(T_SweepOverflows(t, order)) :
             T_CollectSweep(t, order, overflow_checks)
    \/ \E t \in Threads, obj_order \in Perms(DOMAIN objects) :
          \E conv_order \in Perms(DOMAIN MappingOf("AB", "A").conversions) :
             \E garbage \in GarbageVals : T_MapLock(t, obj_order, conv_order, garbage)
    \/ \E t \in Threads : T_MapCommit(t)
    \/ \E t \in Threads : T_MapReturn(t)

SpecThreads == InitThreads /\ [][NextThreads]_vars

----------------------------------------------------------------------------
(* The two locks.  Each call of the collector is the sequence of lock operations its    *)
(* code performs; a thread is [op, plan, at, held]: the call it is in, the lock          *)
(* operations of the call, the next of them, and the locks it holds in the order it      *)
(* took them.                                                                            *)

MaxSwept == 2

Acquire(lock, mode) == [do |-> "acquire", lock |-> lock, mode |-> mode]
Release(lock) == [do |-> "release", lock |-> lock, mode |-> "none"]

\* log_alloc: { let mut stats = self.stats.write(); .. }
LogAllocLocks == <<Acquire("stats", "write"), Release("stats")>>

\* the sweep of one record: { let mut stats = self.stats.write(); .. }
SweepLocks == <<Acquire("stats", "write"), Release("stats")>>

\* stats: self.stats.read().clone()
StatsLocksThroughTable ==
    <<Acquire("stats", "read"), Acquire("objects", "read"), Release("objects"), Release("stats")>>
StatsLocks == <<Acquire("stats", "read"), Release("stats")>>

RECURSIVE Times(_, _)
Times(k, plan) == IF k = 0 THEN <<>> ELSE plan \o Times(k - 1, plan)

LockOps == {"alloc", "alloc_array", "ptr_type", "root", "unroot", "stats", "collect", "map_memory"}

\* the lock operations of a call; k is the number of records a collect sweeps or a
\* map_memory commits
LockPlan(op, k) ==
    IF op \in {"alloc", "alloc_array"}
    THEN <<Acquire("objects", "write"), Release("objects")>> \o LogAllocLocks
    ELSE IF op \in {"root", "unroot"}
    THEN <<Acquire("objects", "write"), Release("objects")>>
    ELSE IF op = "ptr_type"
    THEN <<Acquire("objects", "read"), Release("objects")>>
    ELSE IF op = "stats"
    THEN StatsLocks
    ELSE IF op = "collect"
    THEN <<Acquire("objects", "write")>> \o Times(k, SweepLocks) \o <<Release("objects")>>
    ELSE <<Acquire("objects", "write")>> \o Times(k, LogAllocLocks) \o <<Release("objects")>>

NoPlan == [op |-> "none", plan |-> <<>>, at |-> 1, held |-> <<>>]

lockfree == <<objects, heap, allocated_memory, events, pc, worklist, universe, reloads,
              net, last, pre, layout, lut, invoke>>

InitLocks ==
    /\ objects = <<>>
    /\ heap = <<>>
    /\ allocated_memory = UZero(UsizeLimbs)
    /\ events = <<>>
    /\ pc = "idle"
    /\ worklist = <<>>
    /\ universe = "A"
    /\ reloads = 0
    /\ net = <<>>
    /\ last = NoCall
    /\ pre = NoPre
    /\ layout = NoLayout
    /\ threads = [t \in Threads |-> NoPlan]
    /\ table_lock = 0
    /\ lut = NoLut
    /\ invoke = NoInvoke

InCall(t) == threads[t].op # "none"
NextOp(t) == threads[t].plan[threads[t].at]

Holds(t, lock, mode) == \E i \in 1..Len(threads[t].held) : threads[t].held[i] = <<lock, mode>>
WaitsToWrite(t, lock) ==
    InCall(t) /\ NextOp(t) = Acquire(lock, "write")

\* RwLock::write is granted when no thread holds the lock; RwLock::read when no thread
\* holds it for writing
Granted(t, lock, mode) ==
    IF mode = "write"
    THEN \A u \in Threads : ~Holds(u, lock, "write") /\ ~Holds(u, lock, "read")
    ELSE \A u \in Threads : ~Holds(u, lock, "write")

\* a fair RwLock also keeps a reader waiting while a writer is waiting
GrantedFair(t, lock, mode) ==
    /\ Granted(t, lock, mode)
    /\ mode = "read" => \A u \in Threads \ {t} : ~WaitsToWrite(u, lock)

\* a thread begins a call
LockCall(t, op, k) ==
    /\ ~InCall(t)
    /\ threads' = [threads EXCEPT ![t] = [op |-> op, plan |-> LockPlan(op, k), at |-> 1,
                                          held |-> <<>>]]
    /\ UNCHANGED table_lock
    /\ UNCHANGED lockfree

\* the thread after the lock operation at `at`
Advanced(th, held) ==
    IF th.at = Len(th.plan) THEN NoPlan ELSE [th EXCEPT !.at = @ + 1, !.held = held]

\* self.objects.write() / read(), self.stats.write() / read()
LockAcquire(t) ==
    /\ InCall(t)
    /\ NextOp(t).do = "acquire"
    /\ Granted(t, NextOp(t).lock, NextOp(t).mode)
    /\ threads' = [threads EXCEPT ![t] =
                      Advanced(@, Append(@.held, <<NextOp(t).lock, NextOp(t).mode>>))]
    /\ table_lock' = IF NextOp(t) = Acquire("objects", "write") THEN t ELSE table_lock
    /\ UNCHANGED lockfree

\* the guard of a lock goes out of scope
LockRelease(t) ==
    /\ InCall(t)
    /\ NextOp(t).do = "release"
    /\ threads' = [threads EXCEPT ![t] =
                      Advanced(@, SelectSeq(@.held, LAMBDA e : e[1] # NextOp(t).lock))]
    /\ table_lock' = IF NextOp(t).lock = "objects" /\ table_lock = t THEN 0 ELSE table_lock
    /\ UNCHANGED lockfree

NextLocks ==
    \/ \E t \in Threads, op \in LockOps, k \in 0..MaxSwept :
          /\ (k > 0 => op \in {"collect", "map_memory"})
          /\ LockCall(t, op, k)
    \/ \E t \in Threads : LockAcquire(t)
    \/ \E t \in Threads : LockRelease(t)

SpecLocks == InitLocks /\ [][NextLocks]_vars

----------------------------------------------------------------------------
(* repeat_layout as a function of its arguments: an element layout of some size and *)
(* power-of-two alignment, and a count                                              *)

LayoutAligns == {1, 2, 4, 8}
LayoutCounts == {UOfNat(n, UsizeLimbs) : n \in 0..MaxCount} \cup {UMax(UsizeLimbs)}

InitLayout ==
    /\ objects = <<>>
    /\ heap = <<>>
    /\ allocated_memory = UZero(UsizeLimbs)
    /\ events = <<>>
    /\ pc = "idle"
    /\ worklist = <<>>
    /\ universe = "A"
    /\ reloads = 0
    /\ net = <<>>
    /\ last = NoCall
    /\ pre = NoPre
    /\ layout \in [size : 0..MaxSize, align : LayoutAligns, n : LayoutCounts, result : {<<>>}]
    /\ threads = <<>>
    /\ table_lock = 0
    /\ lut = NoLut
    /\ invoke = NoInvoke

RepeatLayout ==
    /\ layout.result = <<>>
    /\ layout' = [layout EXCEPT !.result = <<repeat_layout(layout.size, layout.align, layout.n)>>]
    /\ UNCHANGED <<objects, heap, allocated_memory, events, pc, worklist, universe, reloads,
                   net, last, pre, threads, table_lock, lut, invoke>>

NextLayout == RepeatLayout

SpecLayout == InitLayout /\ [][NextLayout]_vars

----------------------------------------------------------------------------
(* Properties of collect *)

\* the handles of objs that type.trace reaches from the handles in frontier
RECURSIVE Reach(_, _, _, _)
Reach(objs, hp, frontier, seen) ==
    IF frontier = {} THEN seen
    ELSE LET succ == UNION {Range(Trace(objs, hp, h)) : h \in frontier}
         IN Reach(objs, hp, (succ \cap DOMAIN objs) \ (seen \cup frontier), seen \cup frontier)

CollectReturned == pc = "idle" /\ last.op = "collect"

RootedAtBegin == {h \in DOMAIN pre.objects : ~UIsZero(pre.objects[h].roots)}
ReachableAtBegin == Reach(pre.objects, pre.heap, RootedAtBegin, {})
Removed == DOMAIN pre.objects \ DOMAIN objects
Deallocations == SelectSeq(events, LAMBDA e : e.kind = "Deallocation")

\* C1: every record with root_count > 0 when collect begins is in the table, unchanged and
\* under the same handle, when that collect returns
C1_RootedSurvive ==
    CollectReturned =>
        \A h \in RootedAtBegin : h \in DOMAIN objects /\ objects[h] = pre.objects[h]

\* a collect after a reload that kept a rooted record and removed another one
C1_Witness ==
    /\ CollectReturned
    /\ reloads > 0
    /\ RootedAtBegin # {}
    /\ Removed # {}

\* C2: after collect the table holds exactly the records that trace reaches from the
\* records rooted when the collect began
C2_ExactlyReachable ==
    CollectReturned => DOMAIN objects = ReachableAtBegin

\* a collect that kept an unrooted record reached only through another record, and
\* removed an unreachable one
C2_Witness ==
    /\ CollectReturned
    /\ \E h \in DOMAIN objects : h \notin RootedAtBegin
    /\ Removed # {}

\* C3: a record rooted more often than unrooted survives every collect; once the counts
\* are equal and no other record with root_count > 0 reaches it, the next collect removes it
C3_RootingCounted ==
    CollectReturned =>
        \A h \in DOMAIN pre.objects :
            /\ pre.net[h] > 0 => h \in DOMAIN objects
            /\ (/\ pre.net[h] = 0
                /\ h \notin Reach(pre.objects, pre.heap, RootedAtBegin \ {h}, {}))
               => h \notin DOMAIN objects

\* a collect that kept a record with two outstanding roots and removed one whose roots
\* were all released
C3_Witness ==
    /\ CollectReturned
    /\ \E h \in DOMAIN objects : pre.net[h] = MaxRoots
    /\ \E h \in Removed : pre.net[h] = 0

\* C4: collect returns true iff it removed at least one record
C4_ReturnsReclaimed ==
    CollectReturned => (last.ret <=> Removed # {})

\* a collect that returned false although the table is not empty
C4_Witness ==
    /\ CollectReturned
    /\ ~last.ret
    /\ DOMAIN objects # {}

\* C5: a collect that directly follows a collect removes nothing, emits no Deallocation,
\* leaves allocated_memory unchanged and returns false
C5_CollectIdempotent ==
    (CollectReturned /\ last.after_collect) =>
        /\ Removed = {}
        /\ Deallocations = <<>>
        /\ allocated_memory = pre.allocated_memory
        /\ ~last.ret

\* the second of two consecutive collects, with a survivor that is not itself rooted
C5_Witness ==
    /\ CollectReturned
    /\ last.after_collect
    /\ \E h \in DOMAIN objects : h \notin RootedAtBegin

----------------------------------------------------------------------------
(* Properties of the statistics *)

TypeSizes == [h \in DOMAIN objects |-> layout_size(objects[h].ty)]

\* C6: between calls allocated_memory is the sum of type.layout.size over the records
\* of the table, each with its current type
C6_StatsMatchTypes ==
    pc = "idle" => allocated_memory = UOfNat(SumOver(DOMAIN objects, TypeSizes), UsizeLimbs)

----------------------------------------------------------------------------
(* Properties of map_memory *)

MapReturned == pc = "idle" /\ last.op = "map_memory"

TheMapping == MappingOf(last.mapping, universe)
IdenticalOld == {TheMapping.identical[i][1] : i \in 1..Len(TheMapping.identical)}
IdenticalNew == {TheMapping.identical[i][2] : i \in 1..Len(TheMapping.identical)}
ConversionNew == {TheMapping.conversions[g].new_ty : g \in DOMAIN TheMapping.conversions}
InDeletions(t) == \E d \in TheMapping.deletions : TyEq(t, d)
NamedByMapping(t) ==
    \/ InDeletions(t)
    \/ \E o \in IdenticalOld : TyEq(t, o)
    \/ t.g \in DOMAIN TheMapping.conversions
\* the types of the heap-allocated fields the field mappings of the Mapping produce
FieldNewTypes ==
    UNION {{TheMapping.conversions[g].field_mapping[i].new_ty :
              i \in {k \in 1..Len(TheMapping.conversions[g].field_mapping) :
                       ~is_stack_allocated(TheMapping.conversions[g].field_mapping[k].new_ty)}} :
           g \in DOMAIN TheMapping.conversions}
Created == DOMAIN objects \ DOMAIN pre.objects
DeletedAtEntry == {h \in DOMAIN pre.objects : InDeletions(pre.objects[h].ty)}

\* C7: map_memory removes no record, and keeps the length, capacity, root count and color
\* of every record it found in the table
C7_MappingKeepsRecords ==
    MapReturned =>
        \A h \in DOMAIN pre.objects :
            /\ h \in DOMAIN objects
            /\ objects[h].length = pre.objects[h].length
            /\ objects[h].capacity = pre.objects[h].capacity
            /\ objects[h].roots = pre.objects[h].roots
            /\ objects[h].color = pre.objects[h].color

\* a rooted record that map_memory converted: it has a new payload and a new type
C7_Witness ==
    /\ MapReturned
    /\ \E h \in DOMAIN pre.objects :
          /\ ~UIsZero(pre.objects[h].roots)
          /\ objects[h].ptr # pre.objects[h].ptr
          /\ ~TyEq(objects[h].ty, pre.objects[h].ty)

\* C8: map_memory returns exactly the handles of the records whose type at entry is in
\* M.deletions, each once, and leaves those records, their payloads and roots untouched
C8_ReturnsDeleted ==
    MapReturned =>
        /\ Range(last.deleted) = DeletedAtEntry
        /\ Len(last.deleted) = Cardinality(DeletedAtEntry)
        /\ \A h \in DeletedAtEntry :
              /\ h \in DOMAIN objects
              /\ objects[h] = pre.objects[h]
              /\ heap[objects[h].ptr] = pre.heap[objects[h].ptr]

\* a reload that deleted the type of a rooted record and converted another record
C8_Witness ==
    /\ MapReturned
    /\ \E h \in DeletedAtEntry : ~UIsZero(pre.objects[h].roots)
    /\ \E h \in DOMAIN pre.objects : objects[h].ptr # pre.objects[h].ptr

\* C9 as stated: after map_memory every record of the table, also one the call created,
\* has a type on the new side of M.identical or M.conversions, or a type of M.deletions
\* with its handle in the returned vector
C9_AllTypesNewOrDeleted ==
    MapReturned =>
        \A h \in DOMAIN objects :
            \/ objects[h].ty \in IdenticalNew \cup ConversionNew
            \/ InDeletions(objects[h].ty) /\ h \in Range(last.deleted)

\* C9 amended: after map_memory every record that was in the table at entry with a type M
\* names has a type on the new side of M.identical or M.conversions, or a type of
\* M.deletions with its handle in the returned vector; a record the call created has the
\* new type of the field mapping that created it
C9_NamedTypesNewOrDeleted ==
    MapReturned =>
        /\ \A h \in DOMAIN pre.objects :
              NamedByMapping(pre.objects[h].ty) =>
                 \/ objects[h].ty \in IdenticalNew \cup ConversionNew
                 \/ InDeletions(objects[h].ty) /\ h \in Range(last.deleted)
        /\ \A h \in Created : objects[h].ty \in FieldNewTypes

\* a reload that rewrote an identical type, converted a record and created a record of
\* a type that is on no new side of the Mapping
C9_Witness ==
    /\ MapReturned
    /\ \E h \in DOMAIN pre.objects : objects[h].ty \in IdenticalNew
    /\ \E h \in DOMAIN pre.objects : objects[h].ty \in ConversionNew
    /\ \E h \in Created : objects[h].ty \notin IdenticalNew \cup ConversionNew

\* C10: a Mapping with no deletions and no conversions whose identical pairs cover the
\* type of every record rewrites the types only: no payload pointer or byte changes,
\* nothing is allocated or freed, the result is empty, allocated_memory is unchanged
C10_IdenticalMappingOnlyRetypes ==
    (/\ MapReturned
     /\ TheMapping.deletions = {}
     /\ DOMAIN TheMapping.conversions = {}
     /\ \A h \in DOMAIN pre.objects : \E o \in IdenticalOld : TyEq(pre.objects[h].ty, o))
    =>  /\ heap = pre.heap
        /\ DOMAIN objects = DOMAIN pre.objects
        /\ \A h \in DOMAIN objects :
              /\ objects[h].ty \in IdenticalNew
              /\ TyEq(objects[h].ty, pre.objects[h].ty)
              /\ objects[h] = [pre.objects[h] EXCEPT !.ty = objects[h].ty]
        /\ last.deleted = <<>>
        /\ events = <<>>
        /\ allocated_memory = pre.allocated_memory

\* an identical reload of a table with a rooted record that references another record
C10_Witness ==
    /\ MapReturned
    /\ last.mapping = "same"
    /\ \E h \in DOMAIN objects : ~UIsZero(objects[h].roots) /\ Trace(objects, heap, h) # <<>>
    /\ Cardinality(DOMAIN objects) > 1

----------------------------------------------------------------------------
(* Properties of the field mappings *)

\* the records of the table at entry that Pass 2 converts
ConvertedAtEntry ==
    {h \in DOMAIN pre.objects : pre.objects[h].ty.g \in DOMAIN TheMapping.conversions}
FieldMappingOf(g) == TheMapping.conversions[g].field_mapping
FieldsOfKind(g, kind) ==
    {i \in 1..Len(FieldMappingOf(g)) : FieldMappingOf(g)[i].action.kind = kind}
WordsOf(ty) == 0..((layout_size(ty) \div WordSize) - 1)

\* C11: for every converted record and every Copy(old_offset) of its conversion, the
\* new_ty.layout.size bytes at new_offset of the new payload are the bytes at old_offset
\* of the old payload, and the record keeps its handle
C11_CopyPreservesBytes ==
    MapReturned =>
        \A h \in ConvertedAtEntry :
            /\ h \in DOMAIN objects
            /\ \A i \in FieldsOfKind(pre.objects[h].ty.g, "Copy") :
                  LET fm == FieldMappingOf(pre.objects[h].ty.g)[i]
                  IN \A k \in WordsOf(fm.new_ty) :
                        heap[objects[h].ptr].data[WordAt(fm.new_offset) + k]
                          = pre.heap[pre.objects[h].ptr].data[WordAt(fm.action.old_offset) + k]

\* a converted record with a Copy field: the copied word is not zero, the payload is new
C11_Witness ==
    /\ MapReturned
    /\ \E h \in ConvertedAtEntry :
          /\ objects[h].ptr # pre.objects[h].ptr
          /\ \E i \in FieldsOfKind(pre.objects[h].ty.g, "Copy") :
                LET fm == FieldMappingOf(pre.objects[h].ty.g)[i]
                IN /\ fm.new_offset # fm.action.old_offset
                   /\ heap[objects[h].ptr].data[WordAt(fm.new_offset)] \in ScalarVals
\* the Insert field mappings of the conversion of g whose new type is stack-allocated
StackInserts(g) ==
    {i \in FieldsOfKind(g, "Insert") : is_stack_allocated(FieldMappingOf(g)[i].new_ty)}
\* the Cast field mappings of the conversion of g between structs of one name that recurse
\* into a sub-conversion; to_value tells whether the new field is a value struct
SameStructCasts(g, to_value) ==
    {i \in FieldsOfKind(g, "Cast") :
        LET fm == FieldMappingOf(g)[i]
        IN /\ is_struct(fm.action.old_ty)
           /\ name(fm.action.old_ty) = name(fm.new_ty)
           /\ fm.action.old_ty.g \in DOMAIN TheMapping.conversions
           /\ is_stack_allocated(fm.new_ty) = to_value
           /\ (~to_value => is_stack_allocated(fm.action.old_ty))}
ZeroAt(ptr, off, ty) ==
    \A k \in WordsOf(ty) : heap[ptr].data[WordAt(off) + k] = 0

\* C12: after map_memory the bytes of every Insert field of a stack-allocated type are zero
\* in the new payload of a converted record, in a value-struct slot nested in it, and in
\* the payload of a gc object that a value-struct to gc-struct cast of one struct allocated
C12_InsertLeavesZero ==
    MapReturned =>
        \A h \in ConvertedAtEntry :
            LET g == pre.objects[h].ty.g
            IN /\ \A i \in StackInserts(g) :
                     ZeroAt(objects[h].ptr, FieldMappingOf(g)[i].new_offset,
                            FieldMappingOf(g)[i].new_ty)
               /\ \A i \in SameStructCasts(g, TRUE) :
                     LET fm == FieldMappingOf(g)[i]
                         sub == fm.action.old_ty.g
                     IN \A j \in StackInserts(sub) :
                           ZeroAt(objects[h].ptr,
                                  fm.new_offset + FieldMappingOf(sub)[j].new_offset,
                                  FieldMappingOf(sub)[j].new_ty)
               /\ \A i \in SameStructCasts(g, FALSE) :
                     LET fm == FieldMappingOf(g)[i]
                         sub == fm.action.old_ty.g
                         made == heap[objects[h].ptr].data[WordAt(fm.new_offset)]
                     IN /\ made \in Created
                        /\ \A j \in StackInserts(sub) :
                              ZeroAt(objects[made].ptr, FieldMappingOf(sub)[j].new_offset,
                                     FieldMappingOf(sub)[j].new_ty)
----------------------------------------------------------------------------
(* Determinism of the mapper *)

----------------------------------------------------------------------------
(* Invalid references *)

InvalidReferenceFound == pc = "panicked" /\ last.panic = "found invalid reference"

\* the handles a trace of a record reachable at the begin of collect yields
TracedAtBegin ==
    UNION {Range(Trace(pre.objects, pre.heap, h)) : h \in ReachableAtBegin}

\* C20: a collect whose trace yields a handle that is no key of the table does not go on:
\* it does not return, and when it stops on the handle it has removed no record, freed
\* no payload, left allocated_memory as it was and emitted neither a Deallocation nor an
\* End event
C20_InvalidReferenceAborts ==
    /\ CollectReturned => TracedAtBegin \subseteq DOMAIN pre.objects
    /\ InvalidReferenceFound =>
          /\ DOMAIN objects = DOMAIN pre.objects
          /\ heap = pre.heap
          /\ allocated_memory = pre.allocated_memory
          /\ events = <<Event("Start", Null)>>

\* collect stopped on an invalid reference while a record it would have swept is in the table
C20_Witness ==
    /\ InvalidReferenceFound
    /\ DOMAIN pre.objects \ ReachableAtBegin # {}
    /\ ~(TracedAtBegin \subseteq DOMAIN pre.objects)
----------------------------------------------------------------------------
(* Arrays *)

RemovedArrays == {h \in Removed : is_array(pre.objects[h].ty)}

\* C18: a collect that removes one record, an unrooted array, lowers allocated_memory by
\* the size of the payload of the array (its value layout)
C18_ArrayFreesPayload ==
    (CollectReturned /\ Cardinality(Removed) = 1 /\ RemovedArrays = Removed)
        => \A h \in Removed :
              allocated_memory = USub(pre.allocated_memory, value_layout(pre.objects[h])).v
\* x \div p for p below 2^15, limb by limb from the most significant, r the remainder so far
RECURSIVE UDivAt(_, _, _, _)
UDivAt(x, p, i, r) ==
    IF i = 0 THEN x
    ELSE LET t == r * LimbBase + x[i]
         IN UDivAt([x EXCEPT ![i] = t \div p], p, i - 1, t % p)

\* p * n exceeds usize::MAX
MulOverflows(p, n) == p > 0 /\ ~ULe(n, UDivAt(UMax(UsizeLimbs), p, UsizeLimbs, 0))

\* the last call was alloc_array(g, n) with a repeat-layout multiplication that overflows
AllocArrayOverflowed ==
    /\ last.op = "alloc_array"
    /\ MulOverflows(round_up(layout_size(element_type(Ty(last.arg[1], 0))), WordSize),
                    last.arg[2])

\* C19 as stated: an alloc_array call whose repeat-layout multiplication overflows returns
\* an error to its caller: the runtime goes on, with no record inserted, no event emitted
\* and allocated_memory as it was
C19_OverflowSurfacedAsError ==
    AllocArrayOverflowed =>
        /\ pc = "idle"
        /\ objects = pre.objects
        /\ allocated_memory = pre.allocated_memory
        /\ events = <<>>

\* C19, amended: an alloc_array call whose repeat-layout multiplication overflows panics,
\* the panic naming the layout error OutOfBounds; it has inserted no record, allocated
\* no payload, emitted no event and left allocated_memory as it was
C19_OverflowPanics ==
    AllocArrayOverflowed =>
        /\ pc = "panicked"
        /\ last.panic = "OutOfBounds"
        /\ objects = pre.objects
        /\ heap = pre.heap
        /\ allocated_memory = pre.allocated_memory
        /\ events = <<>>

\* such a call was made on a table that holds a record
C19_Witness ==
    /\ AllocArrayOverflowed
    /\ pc = "panicked"
    /\ DOMAIN objects # {}
    /\ ~UIsZero(allocated_memory)
----------------------------------------------------------------------------
(* The repeated layout *)

LayoutReturned == layout.result # <<>>

\* C17: for an element layout (size, align) and a count n whose product
\* round_up(size, align) * n does not overflow, repeat_layout returns a layout of size
\* round_up(size, align) * n and alignment align
C17_RepeatIsStrideTimesCount ==
    (LayoutReturned /\ ~MulOverflows(round_up(layout.size, layout.align), layout.n))
        => /\ layout.result[1].ok
           /\ layout.result[1].size =
                 checked_mul(UOfNat(round_up(layout.size, layout.align), UsizeLimbs), layout.n).v
           /\ layout.result[1].align = layout.align

(***************************************************************************************)
(* Claims about threads                                                                *)
(***************************************************************************************)

\* the calls of thread t that read the collector's state
Queries == {"stats", "ptr_type"}

\* C14: map_memory is atomic with respect to other threads: between its acquisition of
\* the table lock and the end of its commit loop no call of another thread runs or
\* observes the state, so no query has run while map_memory was at its commit loop.
C14_MapMemoryAtomic ==
    \A t \in Threads : threads[t].seen.op \in Queries => threads[t].seen.writer # "map_commit"

\* the survivors of the collect thread t has finished, by the root counts of its snapshot
SnapshotSurvivors(t) ==
    LET snap == threads[t].snap
    IN Reach(snap.objects, snap.heap,
             {h \in DOMAIN snap.objects : IsRooted(snap.objects[h])}, {})

\* C15: a collect works on a consistent snapshot of roots: between its root scan and its
\* sweep the table holds the records and the root counts it held when the collect took
\* the lock, and the survivors of a finished collect are the records reachable from the
\* records rooted at that moment, their root counts unchanged.
C15_CollectSeesRootSnapshot ==
    \A t \in Threads :
       /\ threads[t].pc = "collect_mark" =>
             /\ DOMAIN objects = DOMAIN threads[t].snap.objects
             /\ \A h \in DOMAIN objects : objects[h].roots = threads[t].snap.objects[h].roots
       /\ threads[t].seen.op = "collect" =>
             /\ DOMAIN threads[t].seen.value = SnapshotSurvivors(t)
             /\ \A h \in DOMAIN threads[t].seen.value :
                   threads[t].seen.value[h].roots = threads[t].snap.objects[h].roots

\* a collect has marked and not yet swept, with a rooted and an unrooted record in its
\* snapshot, while the root or unroot call of another thread waits for the lock
C15_Witness ==
    \E t \in Threads, u \in Threads :
       /\ t # u
       /\ threads[t].pc = "collect_mark"
       /\ threads[t].worklist = <<>>
       /\ threads[u].pc \in {"root", "unroot"}
       /\ threads[u].h \in DOMAIN objects
       /\ \E h \in DOMAIN objects : IsRooted(objects[h])
       /\ \E h \in DOMAIN objects : ~IsRooted(objects[h])

\* C16: every mutation happens under the table lock and the queries read under it, so
\* no call observes the table while it holds a record that allocated_memory does not
\* count yet.
C16_NoUncountedObserved ==
    \A t \in Threads : threads[t].seen.uncounted = {}

(***************************************************************************************)
(* TypeLut (crates/mun_abi/src/type_lut.rs): a table of num_entries type handles.      *)
(* A handle is a pointer, 0 is ptr::null().  Indices and num_entries are u32.           *)
(***************************************************************************************)

U32Limbs == 2
MaxEntries == 3
TypePtrs == {0, 1, 2}

\* the handle arrays of a TypeLut of at most MaxEntries types
Tables == UNION {[1..n -> TypePtrs] : n \in 0..MaxEntries}

\* the indices a caller passes: in range, one and two past the end, 2^16 and u32::MAX
Indices == {UOfNat(n, U32Limbs) : n \in 0..(MaxEntries + 1)} \cup {<<0, 1>>, UMax(U32Limbs)}

\* idx < self.num_entries
ULtOrEqual(x, y) == ULe(x, y)
ULt(x, y) == ~ULe(y, x)

\* idx as isize: a u32 is zero-extended to the width of a pointer
AsIsize(idx) == [i \in 1..UsizeLimbs |-> IF i <= Len(idx) THEN idx[i] ELSE 0]

\* the offset lies inside the handle array
InTable(t, off) == ~ULe(UOfNat(Len(t.type_handles), UsizeLimbs), off)

\* *self.type_handles.offset(idx as isize): outside the array the read is undefined and
\* yields any pointer
get_type_handle_unchecked(t, idx) ==
    LET off == AsIsize(idx)
    IN IF InTable(t, off)
       THEN {[value |-> t.type_handles[UToNat(off) + 1], read |-> off]}
       ELSE {[value |-> v, read |-> off] : v \in TypePtrs}

get_type_handle(t, idx) ==
    IF ULt(idx, t.num_entries)
    THEN {[some |-> TRUE, value |-> r.value, read |-> <<r.read>>] :
             r \in get_type_handle_unchecked(t, idx)}
    ELSE {[some |-> FALSE, value |-> 0, read |-> <<>>]}

\* &mut *self.type_handles.offset(idx as isize): the value is the slot referred to; outside
\* the array the reference is undefined and refers to any slot
get_type_handle_unchecked_mut(t, idx) ==
    LET off == AsIsize(idx)
    IN IF InTable(t, off)
       THEN {[value |-> off, read |-> off]}
       ELSE {[value |-> UOfNat(n, UsizeLimbs), read |-> off] : n \in 0..MaxEntries}

get_type_handle_mut(t, idx) ==
    IF ULt(idx, t.num_entries)
    THEN {[some |-> TRUE, value |-> r.value, read |-> <<r.read>>] :
             r \in get_type_handle_unchecked_mut(t, idx)}
    ELSE {[some |-> FALSE, value |-> 0, read |-> <<>>]}

lutfree == <<objects, heap, allocated_memory, events, pc, worklist, universe, reloads,
             net, last, pre, layout, threads, table_lock, invoke>>

InitLut ==
    /\ objects = <<>>
    /\ heap = <<>>
    /\ allocated_memory = UZero(UsizeLimbs)
    /\ events = <<>>
    /\ pc = "idle"
    /\ worklist = <<>>
    /\ universe = "A"
    /\ reloads = 0
    /\ net = <<>>
    /\ last = NoCall
    /\ pre = NoPre
    /\ layout = NoLayout
    /\ threads = <<>>
    /\ table_lock = 0
    /\ lut \in {[NoLut EXCEPT !.type_handles = hs, !.num_entries = UOfNat(Len(hs), U32Limbs)] :
                  hs \in Tables}
    /\ invoke = NoInvoke

GetTypeHandle(idx) ==
    /\ \E r \in get_type_handle(lut, idx) :
          lut' = [lut EXCEPT !.call = "get_type_handle", !.idx = idx,
                             !.result = [some |-> r.some, value |-> r.value], !.read = r.read]
    /\ UNCHANGED lutfree

GetTypeHandleMut(idx) ==
    /\ \E r \in get_type_handle_mut(lut, idx) :
          lut' = [lut EXCEPT !.call = "get_type_handle_mut", !.idx = idx,
                             !.result = [some |-> r.some, value |-> r.value], !.read = r.read]
    /\ UNCHANGED lutfree

\* the caller stores a handle through the reference get_type_handle_mut returned
StoreTypeHandle(v) ==
    /\ lut.call = "get_type_handle_mut"
    /\ lut.result.some
    /\ InTable(lut, lut.result.value)
    /\ lut' = [lut EXCEPT !.call = "store",
                          !.type_handles[UToNat(lut.result.value) + 1] = v]
    /\ UNCHANGED lutfree

NextLut ==
    \/ \E idx \in Indices : GetTypeHandle(idx)
    \/ \E idx \in Indices : GetTypeHandleMut(idx)
    \/ \E v \in TypePtrs : StoreTypeHandle(v)

SpecLut == InitLut /\ [][NextLut]_vars

\* the index of the last lookup is below the number of handles of the table
IdxInRange == lut.idx[2] = 0 /\ lut.idx[1] < Len(lut.type_handles)

\* C22: get_type_handle(idx) and get_type_handle_mut(idx) return Some of the handle stored at
\* index idx (the mutable variant: of a reference to slot idx) exactly when idx < num_entries,
\* and None otherwise; an index out of range reads nothing of the handle array, and no read
\* falls outside it.
C22_LookupInBounds ==
    lut.call \in {"get_type_handle", "get_type_handle_mut"} =>
       /\ lut.result.some <=> IdxInRange
       /\ (lut.result.some /\ lut.call = "get_type_handle") =>
             lut.result.value = lut.type_handles[lut.idx[1] + 1]
       /\ (lut.result.some /\ lut.call = "get_type_handle_mut") =>
             lut.result.value = UOfNat(lut.idx[1], UsizeLimbs)
       /\ ~IdxInRange => lut.read = <<>>
       /\ \A i \in 1..Len(lut.read) : InTable(lut, lut.read[i])

\* a lookup of the last index of a full table returned the handle stored there
C22_Witness ==
    /\ lut.call = "get_type_handle"
    /\ Len(lut.type_handles) = MaxEntries
    /\ lut.idx = UOfNat(MaxEntries - 1, U32Limbs)
    /\ lut.result = [some |-> TRUE, value |-> 2]

(***************************************************************************************)
(* MunRuntime::invoke_fnN and Retriable (crates/mun_runtime/src/macros.rs).  The host   *)
(* invokes one function by name; the loaded assembly either lacks it, or has it with    *)
(* another signature, or has it with the signature asked for.                           *)
(***************************************************************************************)

MaxAttempts == 3
MaxInvokes == 2
MaxPolls == 1

\* the functions the host invokes by name, and the argument it passes
FunctionNames == {"f", "g"}
ArgVals == {1, 2}

Assemblies == {"missing", "mismatch", "present"}

\* self.get_function_info(function_name)
get_function_info(assembly) ==
    IF assembly = "missing" THEN <<>> ELSE <<assembly>>

\* mun_abi::downcast_fn!(function, fn(..) -> Output)
downcast_fn(function) ==
    IF function = "present" THEN [ok |-> TRUE, msg |-> "none"]
    ELSE [ok |-> FALSE, msg |-> "Invalid signature"]

\* the body of MunRuntime::$FnName: Ok(function(args)) or Err($ErrName::new(e, ..))
invoke_fn(assembly) ==
    LET info == get_function_info(assembly)
    IN IF info = <<>> THEN [ok |-> FALSE, msg |-> "Failed to obtain function"]
       ELSE downcast_fn(info[1])

\* if let Ok(output) = self { return output; }
IsOkAlways(result) == TRUE
IsOk(result) == result.ok

NoAttempt == [ok |-> FALSE, msg |-> "none"]

\* the function name and arguments an $ErrName holds; none while the result is Ok
NoErr == [function_name |-> "none", arg |-> 0]

\* a runtime between invocations.  calls lists, for every attempt, the name and argument
\* the function was looked up and called with and how many calls of update() had returned
\* before it; updates lists what the calls of update() returned
IdleRuntime(assembly, invokes) ==
    [assembly |-> assembly, pc |-> "idle", by |-> "none", result |-> NoAttempt,
     attempts |-> <<>>, log |-> <<>>, ran |-> 0, invokes |-> invokes,
     function_name |-> "none", arg |-> 0, err |-> NoErr, calls |-> <<>>, updates |-> <<>>]

invokefree == <<objects, heap, allocated_memory, events, pc, worklist, universe, reloads,
                net, last, pre, layout, threads, table_lock, lut>>

InitInvoke ==
    /\ objects = <<>>
    /\ heap = <<>>
    /\ allocated_memory = UZero(UsizeLimbs)
    /\ events = <<>>
    /\ pc = "idle"
    /\ worklist = <<>>
    /\ universe = "A"
    /\ reloads = 0
    /\ net = <<>>
    /\ last = NoCall
    /\ pre = NoPre
    /\ layout = NoLayout
    /\ threads = <<>>
    /\ table_lock = 0
    /\ lut = NoLut
    /\ invoke \in {IdleRuntime(a, 0) : a \in Assemblies}

\* one attempt with a name and an argument: the function is looked up, downcast and, if
\* both succeed, called; if not, the error keeps the name and the argument
Attempt(rt, function_name, arg) ==
    LET result == invoke_fn(rt.assembly)
    IN [rt EXCEPT !.result = result,
                  !.attempts = Append(@, result),
                  !.ran = IF result.ok THEN @ + 1 ELSE @,
                  !.err = IF result.ok THEN NoErr
                          ELSE [function_name |-> function_name, arg |-> arg],
                  !.calls = Append(@, [function_name |-> function_name, arg |-> arg,
                                       after |-> Len(rt.updates)])]

\* err.runtime.$FnName(err.function_name, err.$Arg): what retry invokes the function with
ReinvokeOther(err) ==
    [function_name |-> err.function_name, arg |-> CHOOSE a \in ArgVals : a # err.arg]
ReinvokeWith(err) == [function_name |-> err.function_name, arg |-> err.arg]

\* MunRuntime::$FnName(function_name, args), from its call to its return
InvokeFn(function_name, arg) ==
    /\ invoke.pc \in {"idle", "returned"}
    /\ invoke.invokes < MaxInvokes
    /\ invoke' = [Attempt([IdleRuntime(invoke.assembly, invoke.invokes + 1) EXCEPT
                              !.function_name = function_name, !.arg = arg],
                           function_name, arg)
                    EXCEPT !.pc = "returned", !.by = "invoke_fn"]
    /\ UNCHANGED invokefree

\* Retriable::retry on the result: Ok is returned as it is; Err prints the message and
\* enters the update loop
Retry ==
    /\ invoke.pc = "returned"
    /\ invoke' = IF invoke.result.ok
                 THEN [invoke EXCEPT !.by = "retry"]
                 ELSE [invoke EXCEPT !.pc = "retry_update", !.by = "retry",
                                     !.log = Append(@, invoke.result.msg)]
    /\ UNCHANGED invokefree

\* Retriable::wait on the result: one iteration of its loop
Wait ==
    /\ invoke.pc \in {"returned", "wait"}
    /\ invoke' = IF IsOk(invoke.result)
                 THEN [invoke EXCEPT !.pc = "returned", !.by = "wait"]
                 ELSE [invoke EXCEPT !.pc = "wait_update", !.by = "wait",
                                     !.log = Append(@, invoke.result.msg)]
    /\ invoke.pc = "returned" => invoke.by # "wait"
    /\ UNCHANGED invokefree

\* while !err.runtime.update() {}: an update that returns true has loaded the assembly
\* found on disk; then the function is invoked again
Update(assembly) ==
    /\ invoke.pc \in {"retry_update", "wait_update"}
    /\ Len(invoke.attempts) < MaxAttempts
    /\ invoke' = [Attempt([invoke EXCEPT !.assembly = assembly,
                                         !.updates = Append(@, TRUE)],
                          ReinvokeWith(invoke.err).function_name,
                          ReinvokeWith(invoke.err).arg)
                    EXCEPT !.pc = IF invoke.pc = "retry_update" THEN "returned" ELSE "wait"]
    /\ UNCHANGED invokefree

\* while !err.runtime.update() {}: an update that returns false; the loop goes round
Poll ==
    /\ invoke.pc \in {"retry_update", "wait_update"}
    /\ Len(SelectSeq(invoke.updates, LAMBDA u : ~u)) < MaxPolls
    /\ invoke' = [invoke EXCEPT !.updates = Append(@, FALSE)]
    /\ UNCHANGED invokefree

NextInvoke ==
    \/ \E function_name \in FunctionNames, arg \in ArgVals : InvokeFn(function_name, arg)
    \/ Retry
    \/ Wait
    \/ \E assembly \in Assemblies : Update(assembly)
    \/ Poll

SpecInvoke == InitInvoke /\ [][NextInvoke]_vars

\* the messages of the failed attempts of the current call
Failures == SelectSeq(invoke.attempts, LAMBDA r : ~r.ok)

Inner(evs) == SubSeq(evs, 2, Len(evs) - 1)

\* C21: the events one collect call emits are in order: Start first and alone until the
\* sweep; and when the call has returned: Start, then one Deallocation(h) for each record h
\* the call removed, no handle twice and none of a surviving record, then End.
C21_CollectEventsInOrder ==
    /\ (pc = "mark" /\ last.op = "collecting") => events = <<Event("Start", Null)>>
    /\ CollectReturned =>
          /\ Len(events) = Cardinality(Removed) + 2
          /\ Head(events) = Event("Start", Null)
          /\ events[Len(events)] = Event("End", Null)
          /\ Range(Inner(events)) = {Event("Deallocation", h) : h \in Removed}

\* a collect has returned after removing two records
C21_Witness ==
    /\ CollectReturned
    /\ Cardinality(Removed) = 2
    /\ Len(Deallocations) = 2

(***************************************************************************************)
(* Claims about colours, staged allocations, layouts and root counts                   *)
(***************************************************************************************)

\* C24: whenever no collect is in progress, every record of the table is White: the
\* survivors of a collect, the records map_memory rewrote and the records alloc,
\* alloc_array and map_memory created.
C24_WhiteBetweenCollects ==
    pc = "idle" => \A h \in DOMAIN objects : objects[h].color = "White"

\* a collect has returned that kept a rooted record and an unrooted record it reached
C24_Witness ==
    /\ CollectReturned
    /\ \E h \in DOMAIN objects : IsRooted(objects[h])
    /\ \E h \in DOMAIN objects : ~IsRooted(objects[h])

\* the fields of the records converted by the call that an Insert of a heap-allocated
\* type filled: <<handle of the record, index of the field mapping>>
InsertedHeapFields ==
    {f \in ConvertedAtEntry \X (1..3) :
        /\ f[2] \in FieldsOfKind(pre.objects[f[1]].ty.g, "Insert")
        /\ ~is_stack_allocated(FieldMappingOf(pre.objects[f[1]].ty.g)[f[2]].new_ty)}

InsertedType(f) == FieldMappingOf(pre.objects[f[1]].ty.g)[f[2]].new_ty

\* the word the field holds when the call has returned
InsertedHandle(f) ==
    heap[objects[f[1]].ptr].data[WordAt(FieldMappingOf(pre.objects[f[1]].ty.g)[f[2]].new_offset)]

\* C25: for every Insert field mapping whose new type is heap-allocated, map_memory
\* allocates a record of the new type with a zeroed payload, root count 0 and color White
\* and writes its handle into the field; when the call returns the handle is a key of
\* the table, none of the handles the table held before, and no two fields hold the same.
C25_InsertAllocatesFresh ==
    MapReturned =>
       /\ \A f \in InsertedHeapFields :
             LET handle == InsertedHandle(f)
             IN /\ handle \in DOMAIN objects
                /\ handle \notin DOMAIN pre.objects
                /\ objects[handle].ty = InsertedType(f)
                /\ UIsZero(objects[handle].roots)
                /\ objects[handle].color = "White"
                /\ heap[objects[handle].ptr].size = layout_size(InsertedType(f))
                /\ \A i \in 1..Len(heap[objects[handle].ptr].data) :
                      heap[objects[handle].ptr].data[i] = 0
       /\ \A f \in InsertedHeapFields : \A k \in InsertedHeapFields :
             f # k => /\ InsertedHandle(f) # InsertedHandle(k)
                      /\ objects[InsertedHandle(f)].ptr # objects[InsertedHandle(k)].ptr

\* a reload that converted two records and filled an inserted field of each, the
\* allocator handing out memory that is not zero
C25_Witness ==
    /\ MapReturned
    /\ Cardinality(InsertedHeapFields) = 2
    /\ Cardinality(Created) = 2

\* the type sizes of the records of a list of staged handles, added up
RECURSIVE StagedSizes(_, _)
StagedSizes(boxes, staged) ==
    IF staged = <<>> THEN 0
    ELSE layout_size(boxes[Head(staged)].ty) + StagedSizes(boxes, Tail(staged))

\* C26: the records the field mappings allocate are staged: the key set of the table is
\* the same after Pass 1 and after Pass 2 as at entry; the staged records are inserted
\* when every conversion has been applied, as they were staged, so none is converted by
\* the call; each insertion emits one Allocation event and adds the type size of the
\* record to allocated_memory.
C26_StagedUntilPassesEnd ==
    MapReturned =>
       LET staged == last.passes.new_allocations
           boxes == last.passes.boxes
       IN /\ last.passes.keys = <<DOMAIN pre.objects, DOMAIN pre.objects>>
          /\ \A h \in ConvertedAtEntry :
                last.passes.types[h] = TheMapping.conversions[pre.objects[h].ty.g].new_ty
          /\ Range(staged) = DOMAIN boxes
          /\ Cardinality(Range(staged)) = Len(staged)
          /\ Range(staged) \cap DOMAIN pre.objects = {}
          /\ DOMAIN objects = DOMAIN pre.objects \cup Range(staged)
          /\ \A h \in Range(staged) : objects[h] = boxes[h]
          /\ events = [i \in 1..Len(staged) |-> Event("Allocation", staged[i])]
          /\ allocated_memory = UAdd(pre.allocated_memory, StagedSizes(boxes, staged)).v

\* a reload has returned that staged two records and inserted both
C26_Witness ==
    /\ MapReturned
    /\ Len(last.passes.new_allocations) = 2
    /\ Cardinality(ConvertedAtEntry) = 2

\* the word a field mapping of primitive fields gives, from the payload `data` it reads
MappedWord(fm, data) ==
    IF fm.action.kind = "Copy" THEN data[WordAt(fm.action.old_offset)]
    ELSE IF fm.action.kind = "Insert" THEN 0
    ELSE LET c == try_cast_from_to(fm.action.old_ty.g, fm.new_ty.g,
                                   data[WordAt(fm.action.old_offset)])
         IN IF c.ok THEN c.v ELSE 0

\* the words of the new value of a struct of primitive fields, by its field mapping
MappedValue(mapping, data) ==
    [w \in 1..Len(mapping) |->
        LET i == CHOOSE k \in 1..Len(mapping) : WordAt(mapping[k].new_offset) = w
        IN MappedWord(mapping[i], data)]

\* the Cast fields of conversion g from a gc struct to the value struct of the same name
GcToValueCasts(g) ==
    {i \in SameStructCasts(g, TRUE) :
        ~is_stack_allocated(FieldMappingOf(g)[i].action.old_ty)}

\* the record the field of h read by field mapping fm referred to when the call began
ReferredAtEntry(h, fm) == pre.heap[pre.objects[h].ptr].data[WordAt(fm.action.old_offset)]

\* the position of conversion g in the order Pass 2 visited the conversions
Position(g) == CHOOSE c \in 1..Len(last.conv_order) : last.conv_order[c] = g

C28_PayloadsHaveValueLayout ==
    pc # "panicked" =>
       \A h \in DOMAIN objects : heap[objects[h].ptr].size = value_layout(objects[h])

\* C29: every step that emits an observer event (Start, End, Allocation, Deallocation)
\* is a step of the thread that holds the table lock exclusively
C29_EventsUnderTableLock ==
    [][events' # events =>
          \E t \in Threads : threads'[t] # threads[t] /\ table_lock = t]_vars

\* C30: unrooting a record whose root count is 0 is detected: no record is left with a
\* root count that wrapped around to 2^32 - 1
C30_UnrootNeverWraps ==
    \A h \in DOMAIN objects : net[h] < 0 => objects[h].roots # UMax(RootsLimbs)

----------------------------------------------------------------------------
(* Claims about the mark loop *)

\* the handles the payload of record h held when the collect began
RefsAtBegin(h) == Range(Trace(pre.objects, pre.heap, h))

\* C31: a collect that has begun returns: the worklist empties, the sweep runs and the
\* End event is emitted, also when the graph has cycles and self-references
C31_CollectTerminates ==
    (pc = "mark") ~>
        (pc = "idle" /\ last.op = "collect" /\ events # <<>>
            /\ events[Len(events)] = Event("End", Null))

\* a collect returned whose graph had a rooted record and another record that referred
\* to each other
C31_Witness ==
    /\ CollectReturned
    /\ \E h \in RootedAtBegin : \E k \in DOMAIN pre.objects \ {h} :
          k \in RefsAtBegin(h) /\ h \in RefsAtBegin(k)

\* C32: during the mark phase no record is in the worklist twice and no record that has
\* been traced (Black) is in it, so each record is enqueued and traced at most once
C32_EnqueuedOnce ==
    pc = "mark" =>
       /\ Cardinality(Range(worklist)) = Len(worklist)
       /\ \A i \in 1..Len(worklist) : objects[worklist[i]].color # "Black"

----------------------------------------------------------------------------
(* Claims about Retriable *)

\* the calls of update() that returned true
Loaded == SelectSeq(invoke.updates, LAMBDA u : u)

\* C33: retry on an Ok result returns it as it is and calls no update(); on an Err it
\* re-invokes the function only after an update() has returned true, exactly once and
\* with the function name and argument of the call; wait returns only an Ok result.
C33_RetryReinvokesOnce ==
    /\ \A i \in 1..Len(invoke.calls) :
          /\ invoke.calls[i].function_name = invoke.function_name
          /\ invoke.calls[i].arg = invoke.arg
    /\ invoke.calls # <<>> => invoke.calls[1].after = 0
    /\ \A i \in 2..Len(invoke.calls) :
          /\ invoke.calls[i].after > invoke.calls[i - 1].after
          /\ invoke.updates[invoke.calls[i].after]
    /\ invoke.calls # <<>> => Len(Loaded) = Len(invoke.calls) - 1
    /\ invoke.pc \in {"returned", "wait"} => Len(invoke.attempts) = Len(invoke.log) + 1
    /\ invoke.pc \in {"retry_update", "wait_update"} =>
          /\ Len(invoke.attempts) = Len(invoke.log)
          /\ ~invoke.result.ok
    /\ invoke.log = <<>> => invoke.updates = <<>>
    /\ (invoke.pc = "returned" /\ invoke.by = "retry" /\ invoke.log = <<>>) =>
          /\ invoke.result.ok
          /\ invoke.attempts = <<invoke.result>>
          /\ invoke.ran = 1
    /\ (invoke.pc = "returned" /\ invoke.by = "wait") =>
          /\ invoke.result.ok
          /\ invoke.ran = 1

\* retry on an Err has returned after an update() that returned false and one that
\* returned true, the function re-invoked once and found
C33_Witness ==
    /\ invoke.pc = "returned"
    /\ invoke.by = "retry"
    /\ invoke.updates = <<FALSE, TRUE>>
    /\ Len(invoke.calls) = 2
    /\ invoke.result.ok
    /\ invoke.function_name = "g"
    /\ invoke.arg = 2

----------------------------------------------------------------------------
(* Claims about allocating and collecting threads *)

\* C34: while a thread is between the insertion of a record and the log_alloc that adds
\* its size, no collect of another thread has removed the record and subtracted its
\* size, and allocated_memory has not wrapped below zero
C34_CountedBeforeSwept ==
    /\ \A t \in Threads : threads[t].pc = "log_alloc" => threads[t].h \in DOMAIN objects
    /\ allocated_memory[UsizeLimbs] < LimbBase \div 2

\* how many of the first n events are the event e
CountBefore(e, n) == Cardinality({j \in 1..n : events[j] = e})

\* C35: in the event stream every Deallocation(h) comes after an Allocation(h) that no
\* earlier Deallocation(h) answers
C35_AllocationBeforeDeallocation ==
    \A i \in 1..Len(events) :
       events[i].kind = "Deallocation" =>
          CountBefore(Event("Allocation", events[i].h), i)
             >= CountBefore(Event("Deallocation", events[i].h), i)

----------------------------------------------------------------------------
(* Claims about the two locks *)

\* the thread can take its next step, also if the lock keeps readers behind waiting writers
Ready(t) ==
    NextOp(t).do = "release" \/ GrantedFair(t, NextOp(t).lock, NextOp(t).mode)

\* C36: the two locks never deadlock: a thread that waits for a lock waits for a thread
\* that can go on; and a thread that holds both locks took the table lock first
C36_NoDeadlock ==
    /\ \A t \in Threads :
          (InCall(t) /\ ~Ready(t)) => \E u \in Threads \ {t} : InCall(u) /\ Ready(u)
    /\ \A t \in Threads :
          \A i \in 1..Len(threads[t].held) : \A j \in (i + 1)..Len(threads[t].held) :
             ~(threads[t].held[i][1] = "stats" /\ threads[t].held[j][1] = "objects")

\* a collecting thread holds the table lock and the stats lock, taken in this order, and
\* the other thread waits for the stats lock
C36_Witness ==
    \E t \in Threads : \E u \in Threads \ {t} :
       /\ threads[t].op = "collect"
       /\ threads[t].held = << <<"objects", "write">>, <<"stats", "write">> >>
       /\ InCall(u)
       /\ NextOp(u).do = "acquire"
       /\ NextOp(u).lock = "stats"
       /\ ~Ready(u)

====
